---- MODULE Spec2Model ----
(***************************************************************************)
(* A model of src/src/cli.ts: the PerformanceCache class and the           *)
(* ModernMigrationShell class (inventory scan, status reconciliation,      *)
(* filtering, selection, refresh and auto-refresh).                        *)
(*                                                                         *)
(* Strings are sequences of one-character strings.  Two characters that    *)
(* have no ASCII spelling are written as words: "CHECK" is the checkmark   *)
(* glyph U+2713 and "ESC" is the escape character U+001B.                  *)
(***************************************************************************)
EXTENDS Integers, Sequences, FiniteSets, TLC

VARIABLES
  cache,        \* PerformanceCache.cache: key -> [data, timestamp, ttl]
  now,          \* the wall clock read by Date.now(), in milliseconds
  lastOp,       \* observation: the cache operation performed last
  lastGet,      \* observation: what the last get returned
  prevCache,    \* observation: the cache map before the last operation
  written,      \* observation: per key, the last set not yet cleared or invalidated
  parseIn,      \* the status command's stdout, split into lines
  parseOut,     \* what parseAppliedMigrations returned for it
  config,       \* the MigrationShellConfig given to the constructor
  migrations,   \* ModernMigrationShell.migrations, the inventory
  selectedIndex,
  dbInfo,       \* connected, migrationsCount, pendingCount, lastCheck
  isLoading,
  searchTerm,
  filterStatus,
  logBuffer,
  listItems,    \* the items migrationsList shows (the records, unformatted)
  autoRefreshInterval,  \* the setInterval handle the shell holds: off, or a timer's id
  exited,       \* process.exit has been called, or a rejection went unhandled
  focusedPanel, \* the panel that has the focus when no overlay has it
  timers,       \* the live setInterval timers: id -> the time the timer is next due
  awaiting,     \* the caller suspended on `await this.loadMigrations()`
  starts,       \* how many times start() has been called
  lastEvent,    \* observation: the handler that ran last
  prevView,     \* observation: selectedIndex and list length before it ran
  triggers,     \* observation: the last two refresh triggers
  scanned,      \* observation: the directory listing the last load read
  statusSeen,   \* observation: what the status command did in the last load
  loads,        \* the loadMigrations calls suspended between the guard and finally
  details,      \* the record detailsBox shows, if any
  overlays,     \* the overlay widgets on the screen, in the order they took focus
  children,     \* the child processes executeCommand spawned and still awaits
  reading,      \* the viewMigrationContent calls suspended on fs.readFile
  spawned,      \* observation: every command spawned so far, with what led to it
  lastClose,    \* observation: how the last executeCommand call ended
  owing,        \* observation: a command succeeded and no later load has installed
  lastInput     \* observation: what the last event carried (a name, a record)

cacheObs == <<lastOp, lastGet, prevCache, written>>
cacheVars == <<cache, now, lastOp, lastGet, prevCache, written>>
parseVars == <<parseIn, parseOut>>
shellVars == <<config, migrations, selectedIndex, dbInfo, isLoading, searchTerm,
               filterStatus, logBuffer, listItems, autoRefreshInterval, awaiting,
               starts, lastEvent, prevView, triggers, scanned, statusSeen,
               loads, details, overlays, children, reading, spawned, lastClose,
               owing, lastInput, timers, exited, focusedPanel>>

timerVars == <<autoRefreshInterval, timers>>

\* The widgets, child processes and reads the command handlers work with.
commandVars == <<overlays, children, reading, spawned, lastClose, lastInput,
                 exited, focusedPanel>>

vars == <<cacheVars, parseVars, shellVars>>

-----------------------------------------------------------------------------
(* String helpers (String.prototype.includes and friends). *)

\* s.startsWith(p, i - 1): p occurs in s at the 1-based position i.
OccursAt(s, p, i) ==
  /\ i >= 1
  /\ i + Len(p) - 1 <= Len(s)
  /\ SubSeq(s, i, i + Len(p) - 1) = p

\* s.includes(p)
Includes(s, p) == \E i \in 1..(Len(s) + 1) : OccursAt(s, p, i)

\* s is a substring of k: k = u \o s \o v for some u and v.
IsSubstring(s, k) ==
  \E i \in 0..Len(k), j \in 0..Len(k) : i <= j /\ SubSeq(k, i + 1, j) = s

Max(S) == CHOOSE x \in S : \A y \in S : y <= x
Min(S) == CHOOSE x \in S : \A y \in S : x <= y

\* The regular-expression classes \d, \s and \S.  Of the characters \s
\* matches, the ones the model's inputs use are space, tab and CR.
IsDigit(c) == c \in {"0", "1", "2", "3", "4", "5", "6", "7", "8", "9"}
IsWs(c) == c \in {" ", "\t", "\r"}
IsNonWs(c) == ~IsWs(c)

\* [0-9;]
IsSgrParam(c) == IsDigit(c) \/ c = ";"

\* c is in the class named: "\d", "\s", "\S" or "[0-9;]".
InClass(c, class) ==
  CASE class = "\\d" -> IsDigit(c)
    [] class = "\\s" -> IsWs(c)
    [] class = "\\S" -> IsNonWs(c)
    [] class = "[0-9;]" -> IsSgrParam(c)

\* The length of the longest run of characters of the class that starts at
\* position t of s (0 when t is past the end or s[t] is not in the class).
RunLen(s, t, class) ==
  Max({n \in 0..(Len(s) - t + 1) : \A x \in t..(t + n - 1) : InClass(s[x], class)})

DigitRun(s, t) == RunLen(s, t, "\\d")
WsRun(s, t) == RunLen(s, t, "\\s")
NonWsRun(s, t) == RunLen(s, t, "\\S")

-----------------------------------------------------------------------------
(* PerformanceCache *)

DEFAULT_TTL == 30000

NoEntries == [k \in {} |-> 0]

\* PerformanceCache.set: overwrite unconditionally, stamped with Date.now().
CacheSetOp(c, key, data, ttl, t) ==
  [k \in (DOMAIN c) \cup {key} |->
     IF k = key THEN [data |-> data, timestamp |-> t, ttl |-> ttl] ELSE c[k]]

CacheDelete(c, key) == [k \in (DOMAIN c) \ {key} |-> c[k]]

ExpiredAtOrAfter(entry, t) == t - entry.timestamp >= entry.ttl

\* The expiry test of get: Date.now() - entry.timestamp > entry.ttl.
Expired(entry, t) == t - entry.timestamp > entry.ttl

\* PerformanceCache.get: the value returned (hit = FALSE stands for null) ...
CacheGetResult(c, key, t) ==
  IF key \notin DOMAIN c THEN [hit |-> FALSE]
  ELSE IF Expired(c[key], t) THEN [hit |-> FALSE]
  ELSE [hit |-> TRUE, data |-> c[key].data]

\* ... and the map it leaves: an expired entry is deleted by the read.
CacheGetMap(c, key, t) ==
  IF key \in DOMAIN c /\ Expired(c[key], t) THEN CacheDelete(c, key) ELSE c

\* PerformanceCache.clear
CacheClearOp(c) == NoEntries

InvalidateByPrefix(c, pattern) ==
  [k \in {x \in DOMAIN c : ~OccursAt(x, pattern, 1)} |-> c[k]]

\* PerformanceCache.invalidate: delete every key that includes the pattern.
\* Deleting from a Map while iterating its keys visits every other key once.
CacheInvalidateOp(c, pattern) ==
  [k \in {x \in DOMAIN c : ~Includes(x, pattern)} |-> c[k]]

-----------------------------------------------------------------------------
(* parseAppliedMigrations: the status command's output, line by line.      *)

MarkerX == <<"[", "X", "]">>
MarkerCheck == <<"CHECK">>

\* The alternation (?:\[X\]|CHECK) at position i: the length it consumes,
\* 0 when neither alternative matches there.
MarkerLen(line, i) ==
  IF OccursAt(line, MarkerX, i) THEN Len(MarkerX)
  ELSE IF OccursAt(line, MarkerCheck, i) THEN Len(MarkerCheck)
  ELSE 0

\* (\S+) can match at t: one character that is not whitespace.
CanName(line, t) == t <= Len(line) /\ IsNonWs(line[t])

\* \s*(\S+) at r: the greedy \s* keeps the longest run that lets the rest match.
WsThenNameCounts(line, r) ==
  {b \in 0..WsRun(line, r) : CanName(line, r + b)}

\* \d+\s*(\S+) at q: the greedy \d+ gives digits back until the rest matches.
DigitsCounts(line, q) ==
  {d \in 1..DigitRun(line, q) : WsThenNameCounts(line, q + d) # {}}

WsOneOrMoreCounts(line, p) ==
  {a \in 1..WsRun(line, p) : DigitsCounts(line, p + a) # {}}

\* \s*\d+\s*(\S+) at p, right after the marker.
WsCounts(line, p) ==
  {a \in 0..WsRun(line, p) : DigitsCounts(line, p + a) # {}}

\* The positions at which the whole expression matches.
MatchStarts(line) ==
  {i \in 1..Len(line) :
     MarkerLen(line, i) > 0 /\ WsCounts(line, i + MarkerLen(line, i)) # {}}

\* The capture group (\S+) starting at t: greedy, the whole run.
CaptureAt(line, t) == SubSeq(line, t, t + NonWsRun(line, t) - 1)

\* The capture of the match whose second \s* starts at r, whose \d+ starts
\* at q, whose first \s* starts at p, and which starts at i.
CaptureAfterDigits(line, r) == CaptureAt(line, r + Max(WsThenNameCounts(line, r)))
CaptureAfterWs(line, q) == CaptureAfterDigits(line, q + Max(DigitsCounts(line, q)))
CaptureAfterMarker(line, p) == CaptureAfterWs(line, p + Max(WsCounts(line, p)))
CaptureOfMatchAt(line, i) == CaptureAfterMarker(line, i + MarkerLen(line, i))

\* line.match(/(?:\[X\]|CHECK)\s*\d+\s*(\S+)/): the capture group of the
\* leftmost match, each quantifier greedy.  matched = FALSE stands for null.
MatchApplied(line) ==
  IF MatchStarts(line) = {} THEN [matched |-> FALSE]
  ELSE [matched |-> TRUE, name |-> CaptureOfMatchAt(line, Min(MatchStarts(line)))]

\* name.replace(/\u001b\[[0-9;]*m/g, ''), scanning from position i.
RECURSIVE StripAnsiFrom(_, _)
StripAnsiFrom(s, i) ==
  IF i > Len(s) THEN <<>>
  ELSE IF s[i] = "ESC" /\ i + 1 <= Len(s) /\ s[i + 1] = "["
    THEN LET e == i + 2 + RunLen(s, i + 2, "[0-9;]")
         IN  IF e <= Len(s) /\ s[e] = "m"
               THEN StripAnsiFrom(s, e + 1)
               ELSE <<s[i]>> \o StripAnsiFrom(s, i + 1)
    ELSE <<s[i]>> \o StripAnsiFrom(s, i + 1)

StripAnsi(s) == StripAnsiFrom(s, 1)

\* One iteration of the loop over the lines: the names the line adds.
ParseLine(line) ==
  IF Includes(line, MarkerCheck) \/ Includes(line, MarkerX)
    THEN LET m == MatchApplied(line)
         IN  IF m.matched THEN <<StripAnsi(m.name)>> ELSE <<>>
    ELSE <<>>

RECURSIVE ParseAppliedFrom(_, _)
ParseAppliedFrom(lines, i) ==
  IF i > Len(lines) THEN <<>>
  ELSE ParseLine(lines[i]) \o ParseAppliedFrom(lines, i + 1)

\* parseAppliedMigrations(output), output.split('\n') being `lines`.
ParseAppliedMigrations(lines) == ParseAppliedFrom(lines, 1)

-----------------------------------------------------------------------------
(* The inventory scan of loadMigrations.                                   *)
(*                                                                         *)
(* A directory entry is [name, birthtime, description]: the file's name,   *)
(* its stats.birthtimeMs and what extractDescription returns for its       *)
(* content.  The size and hash fields of a record are display-only and     *)
(* are left out.                                                           *)

DigitChars == <<"0", "1", "2", "3", "4", "5", "6", "7", "8", "9">>
DigitValue(c) == (CHOOSE d \in 1..10 : DigitChars[d] = c) - 1

\* parseInt of a run of decimal digits.
RECURSIVE ParseInt(_)
ParseInt(ds) ==
  IF ds = <<>> THEN 0
  ELSE 10 * ParseInt(SubSeq(ds, 1, Len(ds) - 1)) + DigitValue(ds[Len(ds)])

\* s.match(/^(\d+)/)?.[1]: the leading digit run, <<>> when there is none.
LeadingDigits(s) == SubSeq(s, 1, DigitRun(s, 1))

\* s.match(/(\d+)/)?.[1]: the first digit run anywhere, <<>> when none.
FirstDigits(s) ==
  LET digitsAt == {i \in 1..Len(s) : IsDigit(s[i])}
  IN  IF digitsAt = {} THEN <<>>
      ELSE SubSeq(s, Min(digitsAt), Min(digitsAt) + DigitRun(s, Min(digitsAt)) - 1)

\* s.endsWith(suffix)
EndsWith(s, suffix) == OccursAt(s, suffix, Len(s) - Len(suffix) + 1)

ExtTs == <<".", "t", "s">>
ExtJs == <<".", "j", "s">>

\* file.endsWith('.ts') || file.endsWith('.js')
IsMigrationFile(name) == EndsWith(name, ExtTs) \/ EndsWith(name, ExtJs)

\* name.replace(/\.(ts|js)$/, '')
BaseName(name) ==
  IF IsMigrationFile(name) THEN SubSeq(name, 1, Len(name) - Len(ExtTs)) ELSE name

\* The record built for one file in the loop over migrationFiles.
MigrationOf(file) ==
  [name |-> file.name,
   timestamp |-> IF LeadingDigits(file.name) # <<>>
                   THEN ParseInt(LeadingDigits(file.name))
                   ELSE file.birthtime,
   status |-> "pending",
   description |-> file.description]

RECURSIVE MapMigrations(_)
MapMigrations(files) ==
  IF files = <<>> THEN <<>>
  ELSE <<MigrationOf(Head(files))>> \o MapMigrations(Tail(files))

\* Where a stable sort puts m among records already in order: after every
\* record whose timestamp is not greater.
RECURSIVE InsertByTimestamp(_, _)
InsertByTimestamp(sorted, m) ==
  IF sorted = <<>> THEN <<m>>
  ELSE IF Head(sorted).timestamp - m.timestamp > 0
    THEN <<m>> \o sorted
    ELSE <<Head(sorted)>> \o InsertByTimestamp(Tail(sorted), m)

RECURSIVE SortFrom(_, _)
SortFrom(ms, sorted) ==
  IF ms = <<>> THEN sorted
  ELSE SortFrom(Tail(ms), InsertByTimestamp(sorted, Head(ms)))

Unsorted(ms) == ms

\* migrations.sort((a, b) => a.timestamp - b.timestamp): Array.prototype.sort
\* is stable.
SortByTimestamp(ms) == SortFrom(ms, <<>>)

\* The scan: filter by extension, build the records, sort.
ScanDirectory(files) ==
  SortByTimestamp(
    MapMigrations(SelectSeq(files, LAMBDA f : IsMigrationFile(f.name))))

AppliedLeadingDigits(appliedName) == LeadingDigits(appliedName)

\* appliedName.match(/(\d+)/)?.[1]
AppliedTimestamp(appliedName) == FirstDigits(appliedName)

\* The test inside migrations.forEach: some applied name carries the
\* migration's own leading digit run.
IsApplied(m, appliedNames) ==
  LET migrationTimestamp == LeadingDigits(BaseName(m.name))
  IN  \E i \in 1..Len(appliedNames) :
        /\ migrationTimestamp # <<>>
        /\ AppliedTimestamp(appliedNames[i]) # <<>>
        /\ migrationTimestamp = AppliedTimestamp(appliedNames[i])

\* The status reconciliation when execSync returned `lines`.
Reconcile(ms, lines) ==
  LET appliedNames == ParseAppliedMigrations(lines)
  IN  [i \in 1..Len(ms) |->
         IF IsApplied(ms[i], appliedNames)
           THEN [ms[i] EXCEPT !.status = "applied"]
           ELSE ms[i]]

-----------------------------------------------------------------------------
(* getFilteredMigrations                                                   *)

UpperChars == <<"A", "B", "C", "D", "E", "F", "G", "H", "I", "J", "K", "L", "M",
                "N", "O", "P", "Q", "R", "S", "T", "U", "V", "W", "X", "Y", "Z">>
LowerChars == <<"a", "b", "c", "d", "e", "f", "g", "h", "i", "j", "k", "l", "m",
                "n", "o", "p", "q", "r", "s", "t", "u", "v", "w", "x", "y", "z">>

LowerChar(c) ==
  IF \E i \in 1..26 : UpperChars[i] = c
    THEN LowerChars[CHOOSE i \in 1..26 : UpperChars[i] = c]
    ELSE c

\* s.toLowerCase()
ToLowerCase(s) == [i \in 1..Len(s) |-> LowerChar(s[i])]

MatchesSearch(m, text) ==
  LET term == ToLowerCase(text)
  IN  \/ Includes(ToLowerCase(m.name), term)
      \/ (m.description # <<>> /\ Includes(ToLowerCase(m.description), term))

FilterByNameOnly(ms, status, text) ==
  LET byStatus == IF status # "all"
                    THEN SelectSeq(ms, LAMBDA m : m.status = status)
                    ELSE ms
  IN  IF text # <<>>
        THEN SelectSeq(byStatus,
               LAMBDA m : Includes(ToLowerCase(m.name), ToLowerCase(text)))
        ELSE byStatus

GetFilteredMigrations(ms, status, text) ==
  LET byStatus == IF status # "all"
                    THEN SelectSeq(ms, LAMBDA m : m.status = status)
                    ELSE ms
  IN  IF text # <<>>
        THEN SelectSeq(byStatus, LAMBDA m : MatchesSearch(m, text))
        ELSE byStatus

-----------------------------------------------------------------------------
(* ModernMigrationShell: the handlers as functions of the fields they      *)
(* read and write.  A handler's record s carries the fields below; an      *)
(* action applies a composition of these functions to the current fields.  *)

MAX_LOG_ENTRIES == 1000
AUTO_REFRESH_MS == 30000
MIGRATIONS_TTL == 60000

\* const cacheKey = 'migrations'
MigrationsKey == <<"m", "i", "g", "r", "a", "t", "i", "o", "n", "s">>

Fields ==
  [migrations |-> migrations, selectedIndex |-> selectedIndex, dbInfo |-> dbInfo,
   cache |-> cache, isLoading |-> isLoading, searchTerm |-> searchTerm,
   filterStatus |-> filterStatus, logBuffer |-> logBuffer, listItems |-> listItems,
   loads |-> loads, details |-> details]

Becomes(s) ==
  /\ migrations' = s.migrations
  /\ selectedIndex' = s.selectedIndex
  /\ dbInfo' = s.dbInfo
  /\ cache' = s.cache
  /\ isLoading' = s.isLoading
  /\ searchTerm' = s.searchTerm
  /\ filterStatus' = s.filterStatus
  /\ logBuffer' = s.logBuffer
  /\ listItems' = s.listItems
  /\ loads' = s.loads
  /\ details' = s.details

FirstEntries(buffer, n) ==
  IF Len(buffer) > n THEN SubSeq(buffer, 1, n) ELSE buffer

\* buffer.slice(-n)
LastEntries(buffer, n) ==
  IF Len(buffer) > n THEN SubSeq(buffer, Len(buffer) - n + 1, Len(buffer)) ELSE buffer

\* log(message, type): push, then keep the last MAX_LOG_ENTRIES entries.  An
\* entry is its type and its message (the text without the time of day).
Log(s, type, message) ==
  LET pushed == Append(s.logBuffer, [type |-> type, message |-> message])
  IN  [s EXCEPT !.logBuffer =
         IF Len(pushed) > MAX_LOG_ENTRIES
           THEN LastEntries(pushed, MAX_LOG_ENTRIES)
           ELSE pushed]

\* filtered[this.selectedIndex], or none when the index is past the end.
RecordAt(ms, index) ==
  IF index < Len(ms) THEN [shown |-> TRUE, migration |-> ms[index + 1]]
  ELSE [shown |-> FALSE]

\* updateDetails: the details panel shows the selected record of the
\* filtered list.
UpdateDetails(s) ==
  [s EXCEPT !.details =
     RecordAt(GetFilteredMigrations(s.migrations, s.filterStatus, s.searchTerm),
              s.selectedIndex)]

UpdateListNoClamp(s) ==
  UpdateDetails(
    [s EXCEPT !.listItems =
       GetFilteredMigrations(s.migrations, s.filterStatus, s.searchTerm)])

\* The first half of updateMigrationsList: show the filtered records and
\* clamp the selection.
ShowAndClamp(s, filtered) ==
  [s EXCEPT !.listItems = filtered,
            !.selectedIndex =
               IF @ >= Len(filtered)
                 THEN (IF Len(filtered) - 1 > 0 THEN Len(filtered) - 1 ELSE 0)
                 ELSE @]

\* updateMigrationsList, which ends with updateDetails.
UpdateMigrationsList(s) ==
  UpdateDetails(
    ShowAndClamp(s, GetFilteredMigrations(s.migrations, s.filterStatus, s.searchTerm)))

\* connectToDatabase, the status command having succeeded (probeOk) or not.
ConnectToDatabase(s, probeOk) ==
  LET s1 == IF ~s.dbInfo.connected
              THEN Log(s, "info", "Testing database connection...")
              ELSE s
  IN  IF probeOk
        THEN IF ~s1.dbInfo.connected
               THEN Log([s1 EXCEPT !.dbInfo.connected = TRUE],
                        "success", "Database connection successful")
               ELSE s1
        ELSE IF s1.dbInfo.connected
               THEN Log([s1 EXCEPT !.dbInfo.connected = FALSE],
                        "error", "Database connection lost")
               ELSE s1

LoadWithoutGuard(s, t) ==
  LET cached == CacheGetResult(s.cache, MigrationsKey, t)
      s1 == [s EXCEPT !.cache = CacheGetMap(@, MigrationsKey, t)]
  IN  IF cached.hit
        THEN UpdateMigrationsList([s1 EXCEPT !.migrations = cached.data])
        ELSE Log([s1 EXCEPT !.isLoading = TRUE, !.loads = @ + 1],
                 "info", "Loading migrations...")

\* loadMigrations up to its first await: return at once while a load is in
\* flight or on a cache hit, and otherwise raise the guard.
LoadMigrationsEnter(s, t) ==
  IF s.isLoading THEN s
  ELSE LET cached == CacheGetResult(s.cache, MigrationsKey, t)
           s1 == [s EXCEPT !.cache = CacheGetMap(@, MigrationsKey, t)]
       IN  IF cached.hit
             THEN UpdateMigrationsList([s1 EXCEPT !.migrations = cached.data])
             ELSE Log([s1 EXCEPT !.isLoading = TRUE, !.loads = @ + 1],
                      "info", "Loading migrations...")

CountPending(ms) == Len(SelectSeq(ms, LAMBDA m : m.status = "pending"))

CountApplied(ms) == Len(SelectSeq(ms, LAMBDA m : m.status = "applied"))

\* this.dbInfo.pendingCount = migrations.filter(m => m.status === 'pending').length
PendingCount(ms) == CountPending(ms)

StatusFailureAsError(s) ==
  Log([s EXCEPT !.dbInfo.connected = FALSE],
      "error", "Could not fetch migration status")

\* The catch around execSync in loadMigrations.
StatusFailure(s) ==
  Log([s EXCEPT !.dbInfo.connected = FALSE],
      "warning", "Could not fetch migration status")

LoadedOrFailed(files, status) ==
  IF status.ok THEN Reconcile(ScanDirectory(files), status.lines)
  ELSE [i \in 1..Len(ScanDirectory(files)) |->
          [ScanDirectory(files)[i] EXCEPT !.status = "failed"]]

\* The records loadMigrations builds: the scan, reconciled with the status
\* output unless the status command threw.
LoadedRecords(files, status) ==
  IF status.ok THEN Reconcile(ScanDirectory(files), status.lines)
  ELSE ScanDirectory(files)

\* The try around execSync: connected on success, the catch otherwise.
StatusOutcome(s, status) ==
  IF status.ok THEN [s EXCEPT !.dbInfo.connected = TRUE] ELSE StatusFailure(s)

\* The assignments after the status block, and cache.set.
InstallMigrations(s, loaded, t) ==
  [s EXCEPT !.migrations = loaded,
            !.dbInfo.migrationsCount = Len(loaded),
            !.dbInfo.pendingCount = PendingCount(loaded),
            !.dbInfo.lastCheck = t,
            !.cache = CacheSetOp(@, MigrationsKey, loaded, MIGRATIONS_TTL, t)]

CompleteWithoutFinally(s, files, status, t) ==
  [Log(UpdateMigrationsList(
         InstallMigrations(StatusOutcome(s, status), LoadedRecords(files, status), t)),
       "success", "Loaded migrations")
     EXCEPT !.loads = @ - 1]

\* loadMigrations from readdir to the end of its try block and its finally:
\* `files` is what the directory held and `status` what execSync did.
CompleteLoad(s, files, status, t) ==
  [Log(UpdateMigrationsList(
         InstallMigrations(StatusOutcome(s, status), LoadedRecords(files, status), t)),
       "success", "Loaded migrations")
     EXCEPT !.isLoading = FALSE, !.loads = @ - 1]

AbortWithoutFinally(s) ==
  [Log(s, "error", "Error loading migrations") EXCEPT !.loads = @ - 1]

\* loadMigrations when a filesystem call rejects: the outer catch and finally.
AbortLoad(s) ==
  [Log(s, "error", "Error loading migrations")
     EXCEPT !.isLoading = FALSE, !.loads = @ - 1]

RefreshWithoutClear(s, silent, t) ==
  LoadMigrationsEnter(IF silent THEN s ELSE Log(s, "info", "Refreshing data..."), t)

\* refreshData up to `await this.loadMigrations()`.
RefreshDataEnter(s, silent, t) ==
  LET s1 == IF silent THEN s ELSE Log(s, "info", "Refreshing data...")
  IN  LoadMigrationsEnter([s1 EXCEPT !.cache = CacheClearOp(@)], t)

\* The filters array of cycleFilter and the successor in it.
FilterRing == <<"all", "pending", "applied", "failed">>

NextShownFilter(f) ==
  IF f = "applied" THEN "all"
  ELSE FilterRing[((CHOOSE i \in 1..4 : FilterRing[i] = f) % 4) + 1]

NextFilter(f) ==
  FilterRing[((CHOOSE i \in 1..4 : FilterRing[i] = f) % 4) + 1]

-----------------------------------------------------------------------------
(* The shell's actions.                                                    *)

MaxLog == 7

\* A load has settled and the caller that awaited it has not resumed yet:
\* the continuation is a microtask, and runs before any key or timer event.
ContinuationReady == awaiting # "none" /\ ~isLoading

\* No handler runs between a settled load and its continuation; the log
\* bound keeps the buffer, which only grows, finite.
MayHandle == ~ContinuationReady /\ Len(logBuffer) < MaxLog

\* The keys reach the handlers bound with screen.key unless a textbox (the
\* name box of createMigration / generateMigration, or the search box) has
\* the focus and is reading input.
KeysReachScreen ==
  IF overlays # <<>> THEN overlays[Len(overlays)].kind # "name"
  ELSE focusedPanel # "search"

\* What every handler leaves behind for the properties: its name, the view
\* before it ran, and whether a command has succeeded since the load in
\* flight (or the last one installed) began.
Observe(event) ==
  /\ lastEvent' = event
  /\ prevView' = [selectedIndex |-> selectedIndex, length |-> Len(listItems),
                  migrations |-> migrations]
  /\ owing' = IF event = "exit" /\ lastClose'.outcome = "zero"
                THEN [owed |-> TRUE, load |-> loads' > loads]
              ELSE IF event = "loaded" /\ owing.load
                THEN [owing EXCEPT !.owed = FALSE]
              ELSE IF loads' > loads
                THEN [owing EXCEPT !.load = TRUE]
              ELSE owing
  /\ UNCHANGED <<cacheObs, parseVars>>

NoTriggers == <<>>
Triggered(reloaded) ==
  triggers' = LastEntries(Append(triggers, [at |-> now, reloaded |-> reloaded]), 2)

\* The call went past the isLoading guard: loadMigrations is suspended at an
\* await and its caller with it.
Raised(before, after) == after.loads > before.loads

\* start(): log, load, probe, focus the list.  The program that constructs
\* the shell calls it once.
Start(probeOk) ==
  /\ MayHandle
  /\ starts = 0
  /\ starts' = starts + 1
  /\ LET s0 == Log(Fields, "info", "Starting Migration Manager...")
         s1 == LoadMigrationsEnter(s0, now)
     IN  IF Raised(s0, s1)
           THEN /\ Becomes(s1)
                /\ awaiting' = "start"
           ELSE /\ Becomes(ConnectToDatabase(s1, probeOk))
                /\ UNCHANGED awaiting
  /\ Observe("start")
  /\ UNCHANGED <<commandVars, now, config, timerVars, triggers, scanned, statusSeen>>

\* The f5 / r key: refreshData().
RefreshKey(probeOk) ==
  /\ MayHandle
  /\ starts > 0
  /\ KeysReachScreen
  /\ LET s1 == RefreshDataEnter(Fields, FALSE, now)
     IN  IF Raised(Fields, s1)
           THEN /\ Becomes(s1)
                /\ awaiting' = "refresh"
                /\ Triggered(TRUE)
           ELSE /\ Becomes(UpdateDetails(ConnectToDatabase(s1, probeOk)))
                /\ UNCHANGED awaiting
                /\ Triggered(FALSE)
  /\ Observe("refresh")
  /\ UNCHANGED <<commandVars, now, config, timerVars, starts, scanned, statusSeen>>

TickWhenIdle == ~isLoading

\* The condition of the timer callback.
TickReloads == ~isLoading /\ now - dbInfo.lastCheck > AUTO_REFRESH_MS

\* setInterval and clearInterval over the live timers.
NoTimers == [id \in {} |-> 0]

NewTimer(ts) == CHOOSE id \in 1..(Cardinality(DOMAIN ts) + 1) : id \notin DOMAIN ts

SetInterval(ts, due) ==
  [id \in DOMAIN ts \cup {NewTimer(ts)} |-> IF id \in DOMAIN ts THEN ts[id] ELSE due]

LeakInterval(ts, id) == ts

ClearInterval(ts, id) == [k \in DOMAIN ts \ {id} |-> ts[k]]

\* setupAutoRefresh: clear the timer the handle names, if any, and set a new
\* one, due one period from now.
SetupAutoRefresh(handle, ts, t) ==
  [handle |-> [on |-> TRUE,
               id |-> NewTimer(IF handle.on THEN ClearInterval(ts, handle.id) ELSE ts)],
   timers |-> SetInterval(IF handle.on THEN ClearInterval(ts, handle.id) ELSE ts,
                          t + AUTO_REFRESH_MS)]

\* toggleAutoRefresh on the handle and the timers.
ToggleTimer(handle, ts, t) ==
  IF handle.on
    THEN [handle |-> [on |-> FALSE], timers |-> ClearInterval(ts, handle.id)]
    ELSE SetupAutoRefresh(handle, ts, t)

\* The callback setupAutoRefresh gives setInterval, run when a live timer is
\* due; the timer is then due again one period after the callback ran.
AutoRefreshTick ==
  /\ MayHandle
  /\ \E id \in DOMAIN timers :
       /\ now >= timers[id]
       /\ timers' = [timers EXCEPT ![id] = now + AUTO_REFRESH_MS]
  /\ UNCHANGED autoRefreshInterval
  /\ IF TickReloads
       THEN /\ Becomes(RefreshDataEnter(Fields, TRUE, now))
            /\ awaiting' = "refresh"
            /\ Triggered(TRUE)
       ELSE /\ Becomes(Fields)
            /\ UNCHANGED awaiting
            /\ Triggered(FALSE)
  /\ Observe("tick")
  /\ UNCHANGED <<commandVars, now, config, starts, scanned, statusSeen>>

\* The f2 key: toggleAutoRefresh, with setupAutoRefresh when turning it on.
ToggleAutoRefresh ==
  /\ MayHandle
  /\ starts > 0
  /\ KeysReachScreen
  /\ \E toggled \in {ToggleTimer(autoRefreshInterval, timers, now)} :
       /\ autoRefreshInterval' = toggled.handle
       /\ timers' = toggled.timers
  /\ IF autoRefreshInterval.on
       THEN Becomes(Log(Fields, "info", "Auto-refresh disabled"))
       ELSE Becomes(Log(Fields, "info", "Auto-refresh enabled (30s)"))
  /\ Observe("toggle")
  /\ UNCHANGED <<commandVars, now, config, awaiting, starts, triggers, scanned, statusSeen>>

\* The load in flight reads the directory and runs the status command.
LoadFinish(files, status) ==
  /\ loads > 0
  /\ \E loaded \in {CompleteLoad(Fields, files, status, now)} : Becomes(loaded)
  /\ scanned' = files
  /\ statusSeen' = [called |-> TRUE, ok |-> status.ok, lines |-> status.lines]
  /\ Observe("loaded")
  /\ UNCHANGED <<commandVars, now, config, timerVars, awaiting, starts, triggers>>

\* A filesystem call of the load in flight rejects.
LoadFsError ==
  /\ loads > 0
  /\ Becomes(AbortLoad(Fields))
  /\ statusSeen' = [called |-> FALSE]
  /\ Observe("failed")
  /\ UNCHANGED <<commandVars, now, config, timerVars, awaiting, starts, triggers, scanned>>

\* The caller resumes after `await this.loadMigrations()`: connectToDatabase,
\* and then updateDetails in refreshData, or migrationsList.focus() in start,
\* which takes the focus from any overlay opened meanwhile for good.
Continue(probeOk) ==
  /\ ContinuationReady
  /\ IF awaiting = "refresh"
       THEN /\ Becomes(UpdateDetails(ConnectToDatabase(Fields, probeOk)))
            /\ UNCHANGED <<overlays, focusedPanel>>
       ELSE /\ Becomes(ConnectToDatabase(Fields, probeOk))
            /\ overlays' = <<>>
            /\ focusedPanel' = "list"
  /\ awaiting' = "none"
  /\ Observe("continue")
  /\ UNCHANGED <<children, reading, spawned, lastClose, lastInput, exited, now, config,
                 timerVars, starts, triggers, scanned, statusSeen>>

\* cycleFilter: the next filter, applyFilters, and the log line.
CycleFilterOp(s) ==
  Log(UpdateMigrationsList([s EXCEPT !.filterStatus = NextFilter(@)]),
      "info", "Filter changed to")

\* The f4 key: cycleFilter.
CycleFilter ==
  /\ MayHandle
  /\ starts > 0
  /\ KeysReachScreen
  /\ Becomes(CycleFilterOp(Fields))
  /\ Observe("filter")
  /\ UNCHANGED <<commandVars, now, config, timerVars, awaiting, starts, triggers,
                 scanned, statusSeen>>

\* The search box is reading input.
SearchReads == overlays = <<>> /\ focusedPanel = "search"

SearchKeepTerm(s, value) == UpdateMigrationsList(s)

\* The submit handler of the search box: the term, then applyFilters.
SearchSubmitOp(s, value) == UpdateMigrationsList([s EXCEPT !.searchTerm = value])

\* The search box submits `value`.
SearchSubmit(value) ==
  /\ ~ContinuationReady
  /\ starts > 0
  /\ SearchReads
  /\ Becomes(SearchSubmitOp(Fields, value))
  /\ focusedPanel' = "list"
  /\ lastInput' = [by |-> "search", value |-> value]
  /\ Observe("search")
  /\ UNCHANGED <<overlays, children, reading, spawned, lastClose, exited, now, config,
                 timerVars, awaiting, starts, triggers, scanned, statusSeen>>

\* The list's select event for the item at `index`.
SelectItem(index) ==
  /\ ~ContinuationReady
  /\ starts > 0
  /\ index \in 0..(IF Len(listItems) > 0 THEN Len(listItems) - 1 ELSE 0)
  /\ Becomes(UpdateDetails([Fields EXCEPT !.selectedIndex = index]))
  /\ Observe("select")
  /\ UNCHANGED <<commandVars, now, config, timerVars, awaiting, starts, triggers,
                 scanned, statusSeen>>

TimeStep == 30001
MaxSteps == 1
Epoch == 100000

\* Time passes between two events of the started shell.
AdvanceTime ==
  /\ ~ContinuationReady
  /\ starts > 0
  /\ now + TimeStep <= Epoch + MaxSteps * TimeStep
  /\ now' = now + TimeStep
  /\ Becomes(Fields)
  /\ Observe("time")
  /\ UNCHANGED <<commandVars, config, timerVars, awaiting, starts, triggers,
                 scanned, statusSeen>>

-----------------------------------------------------------------------------
(* The mutation commands: the constructor's command table, executeCommand  *)
(* and the handlers that call it.  A command line is the sequence of the   *)
(* pieces the code concatenates; a name the operator types is a sequence   *)
(* of characters.                                                          *)

\* config.commands?.<key> || <def>: an absent or empty entry gives the default.
Configured(cfg, key, def) ==
  IF key \in DOMAIN cfg.commands /\ cfg.commands[key] # ""
    THEN cfg.commands[key]
    ELSE def

\* The constructor's this.commands.
Commands(cfg) ==
  [showStatus |-> Configured(cfg, "showStatus", "pnpm run migration:show"),
   migrateUp |-> Configured(cfg, "migrateUp", "pnpm run migrate:up"),
   migrateDown |-> Configured(cfg, "migrateDown", "pnpm run migrate:down")]

\* `pnpm run migration:create migrations/${name}`
CreateCommand(name) ==
  <<"pnpm run migration:create", " migrations/">> \o name

\* `pnpm run migration:generate migrations/${name}`
GenerateCommand(name) ==
  <<"pnpm run migration:generate", " migrations/">> \o name

\* The command line each of the four handlers gives executeCommand.
CommandLine(cfg, op, name) ==
  CASE op = "create" -> CreateCommand(name)
    [] op = "generate" -> GenerateCommand(name)
    [] op = "apply" -> <<Commands(cfg).migrateUp>>
    [] op = "revert" -> <<Commands(cfg).migrateDown>>

\* The description each handler gives executeCommand (without the name).
Description(op) ==
  CASE op = "create" -> "Creating migration"
    [] op = "generate" -> "Generating migration"
    [] op = "apply" -> "Applying migrations"
    [] op = "revert" -> "Reverting migration"

AnyName(name) == TRUE

\* name.trim() is a non-empty string.
NonBlank(name) == \E i \in 1..Len(name) : ~IsWs(name[i])

\* executeCommand up to its await: the log line; spawn follows.
ExecuteCommandEnter(s, op) == Log(s, "info", Description(op))

\* The 'close' listener of the child, with the exit code zero or not and the
\* captured stream (stdout on success, stderr otherwise) blank or not, and
\* the 'error' listener.
ChildSettled(s, outcome, text) ==
  CASE outcome = "zero" ->
         IF NonBlank(text)
           THEN Log(Log(s, "success", "completed successfully"), "info", "output")
           ELSE Log(s, "success", "completed successfully")
    [] outcome = "nonzero" ->
         IF NonBlank(text)
           THEN Log(Log(s, "error", "failed with code"), "error", "errorOutput")
           ELSE Log(s, "error", "failed with code")
    [] outcome = "error" -> Log(s, "error", "failed")

RethrowFailure(s, outcome) ==
  [state |-> s, returned |-> outcome = "zero"]

\* The end of executeCommand: the promise resolved on exit code zero; a
\* rejection is caught and logged.  Either way the call returns normally.
ExecuteCommandEnd(s, outcome) ==
  [state |-> IF outcome = "zero" THEN s
             ELSE Log(s, "error", "Error executing command"),
   returned |-> TRUE]

\* What the four handlers do once executeCommand has returned:
\* this.cache.invalidate('migrations') and refreshData() up to its await.
AfterCommand(s, t) ==
  RefreshDataEnter([s EXCEPT !.cache = CacheInvalidateOp(@, MigrationsKey)], FALSE, t)

-----------------------------------------------------------------------------
(* Overlays and keys.  blessed gives a key first to the handlers bound with *)
(* screen.key and then to those of the focused element, unless a textbox   *)
(* that is reading input has grabbed the keys, in which case only the      *)
(* textbox sees it; an element that is destroyed gives the focus back to   *)
(* the one that had it before.                                             *)

MaxOverlays == 1
MaxSpawns == 1

NoTarget == [shown |-> FALSE]

Overlay(kind, op, target) == [kind |-> kind, op |-> op, target |-> target]

\* The element that has the focus: the overlay opened last, or a panel.
Focused == IF overlays = <<>> THEN Overlay("panel", "", NoTarget)
           ELSE overlays[Len(overlays)]

\* element.destroy() on the focused overlay.
DestroyFocused == SubSeq(overlays, 1, Len(overlays) - 1)

\* A textbox with inputOnFocus reads input from the moment it is focused.
GrabKeys == ~KeysReachScreen

\* The overlays that bind q and escape to their own destruction.
ClosesOnQ == {"help", "actions", "content", "details"}

\* A key with a screen.key binding reaches it.  The operator keeps at most
\* MaxOverlays overlays open, the content boxes still waiting for their file
\* included, and asks for at most MaxSpawns commands, the prompts still open
\* included.
ScreenKey == ~ContinuationReady /\ starts > 0 /\ ~GrabKeys
MayOpen == Len(overlays) + Len(reading) < MaxOverlays

\* A key bound on the migrations list reaches it: start() has given the list
\* the focus and no overlay has taken it.
ListKey == ~ContinuationReady /\ starts > 0 /\ overlays = <<>> /\ focusedPanel = "list"
Prompts == {i \in DOMAIN overlays : overlays[i].kind \in {"confirm", "name"}}
MayPrompt == Cardinality(Prompts) + Len(spawned) < MaxSpawns

commandRest == <<now, config, timerVars, starts, triggers, scanned,
                 statusSeen, focusedPanel>>

\* f1 / h: showHelp.
HelpKey ==
  /\ ScreenKey /\ MayOpen
  /\ overlays' = Append(overlays, Overlay("help", "", NoTarget))
  /\ Becomes(Fields)
  /\ Observe("help")
  /\ UNCHANGED <<commandRest, exited, awaiting, children, spawned, lastClose, lastInput, reading>>

\* q / C-q: showExitConfirmation; the focused overlay then sees the q too.
QuitKey(key) ==
  /\ ScreenKey /\ MayOpen
  /\ overlays' =
       Append(IF key = "q" /\ Focused.kind \in ClosesOnQ THEN DestroyFocused
              ELSE overlays,
              Overlay("exit", "", NoTarget))
  /\ Becomes(Fields)
  /\ Observe("quit")
  /\ UNCHANGED <<commandRest, exited, awaiting, children, spawned, lastClose, lastInput, reading>>

\* n / g: createMigration / generateMigration open the name box, which grabs
\* the keys, so that the focused element does not see the key.
NameKey(op) ==
  /\ ScreenKey /\ MayPrompt
  /\ overlays' = Append(overlays, Overlay("name", op, NoTarget))
  /\ Becomes(Fields)
  /\ Observe(op)
  /\ UNCHANGED <<commandRest, exited, awaiting, children, spawned, lastClose, lastInput, reading>>

\* u / d: applyMigrations / revertMigration up to `await showConfirmation`.
ConfirmKey(op) ==
  /\ ScreenKey /\ MayPrompt
  /\ overlays' = Append(overlays, Overlay("confirm", op, NoTarget))
  /\ Becomes(Fields)
  /\ Observe(op)
  /\ UNCHANGED <<commandRest, exited, awaiting, children, spawned, lastClose, lastInput, reading>>

\* spawn('sh', ['-c', command]): the child runs, and executeCommand awaits it.
Spawn(op, name, consent) ==
  /\ children' = Append(children, [op |-> op])
  /\ spawned' = Append(spawned, [op |-> op, name |-> name, consent |-> consent,
                                 command |-> CommandLine(config, op, name)])

\* y / Y on the confirmation box: resolve(true), and the handler that awaited
\* it goes on to executeCommand.
ConfirmYes ==
  /\ MayHandle /\ starts > 0
  /\ Focused.kind = "confirm"
  /\ overlays' = DestroyFocused
  /\ Becomes(ExecuteCommandEnter(Fields, Focused.op))
  /\ Spawn(Focused.op, <<>>, "y")
  /\ Observe("yes")
  /\ UNCHANGED <<commandRest, exited, awaiting, lastClose, lastInput, reading>>

\* N / escape on the confirmation box: resolve(false).
ConfirmNo ==
  /\ ~ContinuationReady /\ starts > 0
  /\ Focused.kind = "confirm"
  /\ overlays' = DestroyFocused
  /\ Becomes(Fields)
  /\ Observe("no")
  /\ UNCHANGED <<commandRest, exited, awaiting, children, spawned, lastClose, lastInput, reading>>

\* escape (or q, N) on an overlay that binds it to its own destruction.
CloseOverlay ==
  /\ ~ContinuationReady /\ starts > 0
  /\ Focused.kind \in ClosesOnQ \cup {"exit"}
  /\ overlays' = DestroyFocused
  /\ Becomes(Fields)
  /\ Observe("close")
  /\ UNCHANGED <<commandRest, exited, awaiting, children, spawned, lastClose, lastInput, reading>>

\* The name box submits `name`: executeCommand unless the name is blank.
NameSubmit(name) ==
  /\ MayHandle /\ starts > 0
  /\ Focused.kind = "name"
  /\ overlays' = DestroyFocused
  /\ IF NonBlank(name)
       THEN /\ Becomes(ExecuteCommandEnter(Fields, Focused.op))
            /\ Spawn(Focused.op, name, "submit")
       ELSE /\ Becomes(Fields)
            /\ UNCHANGED <<children, spawned>>
  /\ lastInput' = [by |-> "submit", name |-> name]
  /\ Observe("submit")
  /\ UNCHANGED <<commandRest, exited, awaiting, lastClose, reading>>

\* escape in the name box: its cancel event.
NameCancel ==
  /\ ~ContinuationReady /\ starts > 0
  /\ Focused.kind = "name"
  /\ overlays' = DestroyFocused
  /\ Becomes(Fields)
  /\ Observe("cancel")
  /\ UNCHANGED <<commandRest, exited, awaiting, children, spawned, lastClose, lastInput, reading>>

\* The handler's continuation once executeCommand has returned.
Reload(s, probeOk) ==
  \E s2 \in {AfterCommand(s, now)} :
    IF Raised(s, s2)
      THEN /\ Becomes(s2)
           /\ awaiting' = "refresh"
      ELSE /\ Becomes(UpdateDetails(ConnectToDatabase(s2, probeOk)))
           /\ UNCHANGED awaiting

\* executeCommand from the child's event to its return; a rejection would
\* leave the handler's promise rejected with nothing to catch it, which ends
\* the process.
Settle(outcome, text, probeOk) ==
  \E end \in {ExecuteCommandEnd(ChildSettled(Fields, outcome, text), outcome)} :
    /\ IF end.returned
         THEN Reload(end.state, probeOk)
         ELSE /\ Becomes(end.state)
              /\ UNCHANGED awaiting
    /\ exited' = ~end.returned
    /\ lastClose' = [outcome |-> outcome, returned |-> end.returned,
                     logged |-> SubSeq(logBuffer', Len(logBuffer) + 1, Len(logBuffer'))]

\* The i-th child closes with an exit code (or fails to spawn: 'error'), and
\* the handler that awaited executeCommand runs on.
ChildExit(i, outcome, text, probeOk) ==
  /\ ~ContinuationReady
  /\ i \in 1..Len(children)
  /\ children' = SubSeq(children, 1, i - 1) \o SubSeq(children, i + 1, Len(children))
  /\ Settle(outcome, text, probeOk)
  /\ Observe("exit")
  /\ UNCHANGED <<commandRest, overlays, spawned, lastInput, reading>>

\* The focusableElements of cycleFocus and the successor in it; the element
\* after none of them is the first.
FocusRing == <<"list", "details", "log", "search">>

SamePanel(panel) == panel

NextPanel(panel) ==
  IF \E i \in 1..4 : FocusRing[i] = panel
    THEN FocusRing[((CHOOSE i \in 1..4 : FocusRing[i] = panel) % 4) + 1]
    ELSE FocusRing[1]

\* The element cycleFocus finds focused among the four.
CurrentFocused == IF overlays = <<>> THEN focusedPanel ELSE "none"

\* tab: cycleFocus.  The panel takes the focus from any overlay for good.
CycleFocus ==
  /\ ScreenKey
  /\ focusedPanel' = NextPanel(CurrentFocused)
  /\ overlays' = <<>>
  /\ lastInput' = [by |-> "tab", from |-> CurrentFocused]
  /\ Becomes(Fields)
  /\ Observe("focus")
  /\ UNCHANGED <<now, config, timerVars, starts, triggers, scanned, statusSeen, exited,
                 awaiting, children, spawned, lastClose, reading>>

\* A click on the list, the details box or the log box focuses it.
ClickPanel(panel) ==
  /\ ~ContinuationReady /\ starts > 0
  /\ ~GrabKeys
  /\ panel \in {"list", "details", "log"}
  /\ focusedPanel' = panel
  /\ overlays' = <<>>
  /\ Becomes(Fields)
  /\ Observe("click")
  /\ UNCHANGED <<now, config, timerVars, starts, triggers, scanned, statusSeen, exited,
                 awaiting, children, spawned, lastClose, reading, lastInput>>

\* f3: showSearchDialog focuses the search box, which reads input.
SearchKey ==
  /\ ScreenKey
  /\ focusedPanel' = "search"
  /\ overlays' = <<>>
  /\ Becomes(Fields)
  /\ Observe("find")
  /\ UNCHANGED <<now, config, timerVars, starts, triggers, scanned, statusSeen, exited,
                 awaiting, children, spawned, lastClose, reading, lastInput>>

\* escape in the search box: its cancel event.
SearchCancel ==
  /\ ~ContinuationReady /\ starts > 0
  /\ SearchReads
  /\ focusedPanel' = "list"
  /\ Becomes(Fields)
  /\ Observe("nosearch")
  /\ UNCHANGED <<now, config, timerVars, starts, triggers, scanned, statusSeen, exited,
                 awaiting, overlays, children, spawned, lastClose, reading, lastInput>>

\* The process has not exited.
Running == ~exited

\* y / Y on the exit prompt: clearInterval on the handle, if any, and
\* process.exit(0).
ExitYes ==
  /\ ~ContinuationReady /\ starts > 0
  /\ Focused.kind = "exit"
  /\ timers' = IF autoRefreshInterval.on
                 THEN ClearInterval(timers, autoRefreshInterval.id) ELSE timers
  /\ exited' = TRUE
  /\ Becomes(Fields)
  /\ Observe("exityes")
  /\ UNCHANGED <<now, config, autoRefreshInterval, starts, triggers, scanned, statusSeen,
                 focusedPanel, awaiting, overlays, children, spawned, lastClose, reading,
                 lastInput>>

\* v on the migrations list: viewMigrationContent(this.migrations[selectedIndex])
\* up to `await fs.readFile`, if there is such a record.
ViewKey ==
  /\ ListKey /\ MayOpen
  /\ \E target \in {RecordAt(migrations, selectedIndex)} :
       /\ reading' = IF target.shown THEN Append(reading, target) ELSE reading
       /\ lastInput' = [by |-> "v", target |-> target]
  /\ Becomes(Fields)
  /\ Observe("view")
  /\ UNCHANGED <<commandRest, exited, awaiting, overlays, children, spawned, lastClose>>

\* enter / space on the migrations list: showMigrationActions opens the action
\* menu for filtered[selectedIndex], if there is such a record.
ActionsKey ==
  /\ ListKey /\ MayOpen
  /\ \E target \in {RecordAt(GetFilteredMigrations(migrations, filterStatus, searchTerm),
                              selectedIndex)} :
       /\ overlays' = IF target.shown THEN Append(overlays, Overlay("actions", "", target))
                      ELSE overlays
       /\ lastInput' = [by |-> "enter", target |-> target]
  /\ Becomes(Fields)
  /\ Observe("actions")
  /\ UNCHANGED <<commandRest, exited, awaiting, reading, children, spawned, lastClose>>

\* The select event of the action menu for the item at `index`: the menu is
\* destroyed, and then View Content, the two unsupported actions, Show
\* Details, or Cancel.
ActionSelect(index) ==
  /\ MayHandle /\ starts > 0
  /\ Focused.kind = "actions"
  /\ index \in 0..4
  /\ overlays' = IF index = 3
                   THEN Append(DestroyFocused, Overlay("details", "", Focused.target))
                   ELSE DestroyFocused
  /\ reading' = IF index = 0 THEN Append(reading, Focused.target) ELSE reading
  /\ Becomes(IF index = 1
               THEN Log(Fields, "warning", "Applying specific migration not directly supported")
             ELSE IF index = 2
               THEN Log(Fields, "warning", "Reverting specific migration not directly supported")
             ELSE Fields)
  /\ lastInput' = [by |-> "action", index |-> index, target |-> Focused.target]
  /\ Observe("action")
  /\ UNCHANGED <<commandRest, exited, awaiting, children, spawned, lastClose>>

\* fs.readFile of the oldest suspended viewMigrationContent settles: the
\* content box opens for its record, or the error is logged.
ContentRead(ok) ==
  /\ MayHandle
  /\ reading # <<>>
  /\ reading' = Tail(reading)
  /\ overlays' = IF ok THEN Append(overlays, Overlay("content", "", Head(reading)))
                 ELSE overlays
  /\ Becomes(IF ok THEN Fields ELSE Log(Fields, "error", "Error reading migration file"))
  /\ lastInput' = [by |-> "read", ok |-> ok]
  /\ Observe("content")
  /\ UNCHANGED <<commandRest, exited, awaiting, children, spawned, lastClose>>

-----------------------------------------------------------------------------
(* Directory listings and status outputs.                                  *)

File(name, birthtime, description) ==
  [name |-> name, birthtime |-> birthtime, description |-> description]

File100a == File(<<"1", "0", "0", "a", ".", "t", "s">>, 7, <<"A", "d", "d">>)
File100b == File(<<"1", "0", "0", "b", ".", "j", "s">>, 8, <<"D", "r", "o", "p">>)
File200 == File(<<"2", "0", "0", ".", "t", "s">>, 9, <<>>)
File0100 == File(<<"0", "1", "0", "0", ".", "t", "s">>, 10, <<"a", "d", "d">>)
FileInit == File(<<"I", "n", "i", "t", ".", "t", "s">>, 150, <<"M", "i", "g">>)
File300 == File(<<"3", "0", "0", "c", ".", "t", "s">>, 11, <<"A", "D", "D">>)
FileTxt == File(<<"4", "0", "0", ".", "t", "x", "t">>, 12, <<"n", "o">>)

Line100 == <<"[", "X", "]", " ", "1", " ", "A", "1", "0", "0">>
Line200Pending == <<"[", " ", "]", " ", "2", " ", "B", "2", "0", "0">>
Line300 == <<"CHECK", " ", "3", " ", "C", "3", "0", "0">>
Line0100 == <<"[", "X", "]", " ", "4", " ", "0", "1", "0", "0", "x">>
LineNoDigits == <<"[", "X", "]", " ", "5", " ", "I", "n", "i", "t">>

StatusOk(lines) == [ok |-> TRUE, lines |-> lines]
StatusFailed == [ok |-> FALSE, lines |-> <<>>]

\* No commands given: config.commands is undefined.
NoCommands == [key \in {} |-> ""]

DefaultConfig == [autoRefreshInterval |-> AUTO_REFRESH_MS, commands |-> NoCommands]

InitShellLogged(configs, buffers) ==
  /\ config \in configs
  /\ migrations = <<>>
  /\ selectedIndex = 0
  /\ dbInfo = [connected |-> FALSE, migrationsCount |-> 0, pendingCount |-> 0,
               lastCheck |-> 0]
  /\ isLoading = FALSE
  /\ searchTerm = <<>>
  /\ filterStatus = "all"
  /\ logBuffer \in buffers
  /\ listItems = <<>>
  /\ autoRefreshInterval = [on |-> FALSE]
  /\ timers = NoTimers
  /\ awaiting = "none"
  /\ starts = 0
  /\ lastEvent = "new"
  /\ prevView = [selectedIndex |-> 0, length |-> 0, migrations |-> <<>>]
  /\ triggers = NoTriggers
  /\ scanned = <<>>
  /\ statusSeen = [called |-> FALSE]
  /\ loads = 0
  /\ details = [shown |-> FALSE]
  /\ overlays = <<>>
  /\ children = <<>>
  /\ reading = <<>>
  /\ spawned = <<>>
  /\ lastClose = [outcome |-> "none"]
  /\ owing = [owed |-> FALSE, load |-> FALSE]
  /\ lastInput = [by |-> "none"]
  /\ exited = FALSE
  /\ focusedPanel = "none"

\* The shell as constructed: nothing logged yet.
InitShell(configs) == InitShellLogged(configs, {<<>>})

InitCacheObs ==
  /\ lastOp = [op |-> "new"]
  /\ lastGet = [hit |-> FALSE]
  /\ prevCache = NoEntries
  /\ written = [k \in {} |-> 0]

InitParseVars ==
  /\ parseIn = <<>>
  /\ parseOut = [done |-> FALSE]

-----------------------------------------------------------------------------
(* One start and its load, over every directory listing of up to MaxFiles  *)
(* files and every status output of up to MaxLines lines.                  *)

MaxFiles == 3
MaxLines == 2

AllFiles == {File100a, File100b, File200, File0100, FileInit, FileTxt}
AllLines == <<Line100, Line200Pending, Line0100, LineNoDigits>>

\* The sequences of at most n distinct elements of S.
RECURSIVE Listings(_, _)
Listings(S, n) ==
  IF n = 0 THEN {<<>>}
  ELSE LET shorter == Listings(S, n - 1)
           fresh == {p \in S \X shorter : \A i \in 1..Len(p[2]) : p[2][i] # p[1]}
       IN  {<<>>} \cup {<<p[1]>> \o p[2] : p \in fresh}

\* The subsequences of `lines` of at most n lines.
RECURSIVE Outputs(_, _)
Outputs(lines, n) ==
  IF lines = <<>> \/ n = 0 THEN {<<>>}
  ELSE Outputs(Tail(lines), n)
         \cup {<<Head(lines)>> \o o : o \in Outputs(Tail(lines), n - 1)}

ScanListings == Listings(AllFiles, MaxFiles)
ScanStatuses == {StatusFailed} \cup {StatusOk(o) : o \in Outputs(AllLines, MaxLines)}

InitScan ==
  /\ cache = NoEntries
  /\ now = Epoch
  /\ InitCacheObs
  /\ InitParseVars
  /\ InitShell({DefaultConfig})

NextScan ==
  \/ \E probeOk \in BOOLEAN : Start(probeOk)
  \/ \E files \in ScanListings, status \in ScanStatuses : LoadFinish(files, status)
  \/ LoadFsError
  \/ \E probeOk \in BOOLEAN : Continue(probeOk)

SpecScan == InitScan /\ [][NextScan]_vars

-----------------------------------------------------------------------------
(* The list view: one start, then filter cycles, searches, selections and  *)
(* manual refreshes over a few directories.                                *)

FiveFiles == <<File200, File100a, File100b, File0100, FileInit>>
TwoFiles == <<File100a, File200>>

ViewListings == {FiveFiles, TwoFiles}
ViewStatuses == {StatusOk(<<Line100>>), StatusFailed}
SearchTerms == {<<>>, <<"a", "D", "d">>}

InitView ==
  /\ cache = NoEntries
  /\ now = Epoch
  /\ InitCacheObs
  /\ InitParseVars
  /\ InitShell({DefaultConfig})

NextView ==
  \/ \E probeOk \in BOOLEAN : Start(probeOk)
  \/ RefreshKey(TRUE)
  \/ \E files \in ViewListings, status \in ViewStatuses : LoadFinish(files, status)
  \/ \E probeOk \in BOOLEAN : Continue(probeOk)
  \/ CycleFilter
  \/ SearchKey
  \/ \E value \in SearchTerms : SearchSubmit(value)
  \/ SearchCancel
  \/ \E index \in 0..4 : SelectItem(index)

SpecView == InitView /\ [][NextView]_vars

-----------------------------------------------------------------------------
(* The shell over time: starts, manual refreshes, the auto-refresh timer,  *)
(* loads that complete or fail, and the clock.                             *)

ThreeFiles == <<File300, File100a, File200>>

\* The config given to the constructor: the README's autoRefreshInterval.
Configs == {[autoRefreshInterval |-> 2 * AUTO_REFRESH_MS, commands |-> NoCommands]}

Directories == {ThreeFiles, <<File200>>}
StatusResults == {StatusOk(<<Line100, Line200Pending, Line300>>), StatusFailed}

Init ==
  /\ cache = NoEntries
  /\ now = Epoch
  /\ InitCacheObs
  /\ InitParseVars
  /\ InitShell(Configs)

Next ==
  \/ \E probeOk \in BOOLEAN : Start(probeOk)
  \/ \E probeOk \in BOOLEAN : RefreshKey(probeOk)
  \/ AutoRefreshTick
  \/ ToggleAutoRefresh
  \/ \E files \in Directories, status \in StatusResults : LoadFinish(files, status)
  \/ LoadFsError
  \/ \E probeOk \in BOOLEAN : Continue(probeOk)
  \/ AdvanceTime

Spec == Init /\ [][Next]_vars

-----------------------------------------------------------------------------
(* Reloads from every source: the start, the refresh key, the auto-refresh *)
(* timer and the reload that follows an apply-all command, with the clock  *)
(* advancing and loads completing in between.                              *)

ReloadDirectories == {<<File200>>}
ReloadStatuses == {StatusOk(<<Line100>>)}

InitReload ==
  /\ cache = NoEntries
  /\ now = Epoch
  /\ InitCacheObs
  /\ InitParseVars
  /\ InitShell({DefaultConfig})

NextReload ==
  \/ Start(TRUE)
  \/ RefreshKey(TRUE)
  \/ AutoRefreshTick
  \/ ToggleAutoRefresh
  \/ \E files \in ReloadDirectories, status \in ReloadStatuses : LoadFinish(files, status)
  \/ Continue(TRUE)
  \/ ConfirmKey("apply")
  \/ ConfirmYes
  \/ \E i \in 1..MaxSpawns : ChildExit(i, "zero", <<>>, TRUE)
  \/ AdvanceTime

SpecReload == InitReload /\ [][NextReload]_vars

-----------------------------------------------------------------------------
(* The four mutation commands: one start, then the command keys with their *)
(* confirmation and name boxes, and children that exit with code zero,     *)
(* with another code, or fail to spawn.                                    *)

\* The README's advanced configuration, as far as the commands go.
ReadmeCommands ==
  [key \in {"showStatus", "migrateUp", "migrateDown", "create", "generate"} |->
     CASE key = "showStatus" -> "npm run migration:status"
       [] key = "migrateUp" -> "npm run migrate:up"
       [] key = "migrateDown" -> "npm run migrate:down"
       [] key = "create" -> "npm run migration:create"
       [] key = "generate" -> "npm run migration:generate"]

CommandConfigs ==
  {DefaultConfig, [autoRefreshInterval |-> AUTO_REFRESH_MS, commands |-> ReadmeCommands]}

MigrationNames == {<<>>, <<" ">>, <<"A", "b">>}
Outcomes == {"zero", "nonzero", "error"}
Streams == {<<>>, <<"o", "k">>}

InitCommands ==
  /\ cache = NoEntries
  /\ now = Epoch
  /\ InitCacheObs
  /\ InitParseVars
  /\ InitShell(CommandConfigs)

NextCommands ==
  \/ Start(TRUE)
  \/ \E files \in ReloadDirectories, status \in ReloadStatuses : LoadFinish(files, status)
  \/ Continue(TRUE)
  \/ \E op \in {"create", "generate"} : NameKey(op)
  \/ \E op \in {"apply", "revert"} : ConfirmKey(op)
  \/ ConfirmYes
  \/ ConfirmNo
  \/ \E name \in MigrationNames : NameSubmit(name)
  \/ NameCancel
  \/ \E i \in 1..MaxSpawns, outcome \in Outcomes, text \in Streams :
       ChildExit(i, outcome, text, TRUE)

SpecCommands == InitCommands /\ [][NextCommands]_vars

-----------------------------------------------------------------------------
(* The screen's keys and the boxes they open.                               *)

InitKeys ==
  /\ cache = NoEntries
  /\ now = Epoch
  /\ InitCacheObs
  /\ InitParseVars
  /\ InitShell({DefaultConfig})

NextKeys ==
  \/ Start(TRUE)
  \/ \E files \in ReloadDirectories, status \in ReloadStatuses : LoadFinish(files, status)
  \/ Continue(TRUE)
  \/ RefreshKey(TRUE)
  \/ CycleFilter
  \/ ToggleAutoRefresh
  \/ HelpKey
  \/ \E key \in {"q", "C-q"} : QuitKey(key)
  \/ CloseOverlay
  \/ \E op \in {"create", "generate"} : NameKey(op)
  \/ NameCancel
  \/ \E op \in {"apply", "revert"} : ConfirmKey(op)
  \/ ConfirmNo

SpecKeys == InitKeys /\ [][NextKeys]_vars

-----------------------------------------------------------------------------
(* The keys of the migrations list and the boxes they open, over an        *)
(* inventory of one applied and one pending migration.                     *)

TargetListings == {TwoFiles}
TargetStatuses == {StatusOk(<<Line100>>)}

InitTarget ==
  /\ cache = NoEntries
  /\ now = Epoch
  /\ InitCacheObs
  /\ InitParseVars
  /\ InitShell({DefaultConfig})

NextTarget ==
  \/ Start(TRUE)
  \/ \E files \in TargetListings, status \in TargetStatuses : LoadFinish(files, status)
  \/ Continue(TRUE)
  \/ CycleFilter
  \/ SearchKey
  \/ \E value \in SearchTerms : SearchSubmit(value)
  \/ \E index \in 0..1 : SelectItem(index)
  \/ ViewKey
  \/ ActionsKey
  \/ \E index \in 0..4 : ActionSelect(index)
  \/ \E ok \in BOOLEAN : ContentRead(ok)
  \/ CloseOverlay

SpecTarget == InitTarget /\ [][NextTarget]_vars

-----------------------------------------------------------------------------
(* The focus: the tab key, clicks on the panels, the search box, and the    *)
(* help box as an overlay that takes the focus from the panels.            *)

InitFocus ==
  /\ cache = NoEntries
  /\ now = Epoch
  /\ InitCacheObs
  /\ InitParseVars
  /\ InitShell({DefaultConfig})

NextFocus ==
  \/ Start(TRUE)
  \/ \E files \in ReloadDirectories, status \in ReloadStatuses : LoadFinish(files, status)
  \/ Continue(TRUE)
  \/ CycleFocus
  \/ \E panel \in {"list", "details", "log"} : ClickPanel(panel)
  \/ SearchKey
  \/ \E value \in SearchTerms : SearchSubmit(value)
  \/ SearchCancel
  \/ HelpKey
  \/ CloseOverlay

SpecFocus == InitFocus /\ [][NextFocus]_vars

-----------------------------------------------------------------------------
(* The log buffer near its capacity: log calls on buffers that hold up to  *)
(* MaxShort entries fewer than MAX_LOG_ENTRIES, until MaxOver entries more *)
(* than that have been logged.  The messages are numbered in the order of  *)
(* the calls.                                                              *)

MaxShort == 2
MaxOver == 2

LogTypes == {"info", "success", "warning", "error"}

\* The buffer after n log calls.
LoggedBuffer(n) == [i \in 1..n |-> [type |-> "info", message |-> i]]

\* The number of log calls so far.
LogCalls == IF logBuffer = <<>> THEN 0 ELSE logBuffer[Len(logBuffer)].message

\* this.log(message, type), called by any handler.
LogCall(type) ==
  /\ LogCalls < MAX_LOG_ENTRIES + MaxOver
  /\ Becomes(Log(Fields, type, LogCalls + 1))
  /\ lastInput' = [by |-> "log", entry |-> [type |-> type, message |-> LogCalls + 1]]
  /\ Observe("log")
  /\ UNCHANGED <<now, config, timerVars, starts, triggers, scanned, statusSeen, exited,
                 focusedPanel, awaiting, overlays, children, spawned, lastClose, reading>>

InitLog ==
  /\ cache = NoEntries
  /\ now = Epoch
  /\ InitCacheObs
  /\ InitParseVars
  /\ InitShellLogged({DefaultConfig},
                     {LoggedBuffer(MAX_LOG_ENTRIES - short) : short \in 0..MaxShort})

NextLog == \E type \in LogTypes : LogCall(type)

SpecLog == InitLog /\ [][NextLog]_vars

-----------------------------------------------------------------------------
(* A session with its failures, until the operator quits: status commands  *)
(* that fail, filesystem errors, children that exit with a non-zero code   *)
(* or fail to spawn, content files that cannot be read, and the exit       *)
(* prompt.  Nothing runs once the process has exited.                      *)

SessionListings == {ThreeFiles}

InitSession ==
  /\ cache = NoEntries
  /\ now = Epoch
  /\ InitCacheObs
  /\ InitParseVars
  /\ InitShell({DefaultConfig})

NextSession ==
  \/ Running /\ Start(TRUE)
  \/ Running /\ \E files \in SessionListings, status \in StatusResults :
                  LoadFinish(files, status)
  \/ Running /\ LoadFsError
  \/ Running /\ Continue(TRUE)
  \/ Running /\ ConfirmKey("apply")
  \/ Running /\ ConfirmYes
  \/ Running /\ \E i \in 1..MaxSpawns, outcome \in {"nonzero", "error"} :
                  ChildExit(i, outcome, <<>>, TRUE)
  \/ Running /\ ViewKey
  \/ Running /\ ContentRead(FALSE)
  \/ Running /\ QuitKey("q")
  \/ Running /\ CloseOverlay
  \/ Running /\ ExitYes

SpecSession == InitSession /\ [][NextSession]_vars

-----------------------------------------------------------------------------
(* The cache on its own: any sequence of set, get, clear and invalidate    *)
(* calls, with the clock advancing between them.                           *)

MaxTime == 2
MaxTtl == 1

CacheKeys == { <<"a">>, <<"a", "b">> }
CachePatterns == { <<>>, <<"a">>, <<"b">>, <<"a", "b">>, <<"b", "a">> }
CacheValues == { "v1", "v2" }

Unwritten == [set |-> FALSE]

InitCache ==
  /\ cache = NoEntries
  /\ now = 0
  /\ lastOp = [op |-> "new"]
  /\ lastGet = [hit |-> FALSE]
  /\ prevCache = NoEntries
  /\ written = [k \in CacheKeys |-> Unwritten]
  /\ InitParseVars
  /\ InitShell({DefaultConfig})

CacheSet(key, data, ttl) ==
  /\ cache' = CacheSetOp(cache, key, data, ttl, now)
  /\ lastOp' = [op |-> "set", key |-> key]
  /\ prevCache' = cache
  /\ written' = [written EXCEPT ![key] =
                   [set |-> TRUE, data |-> data, at |-> now, ttl |-> ttl]]
  /\ UNCHANGED <<now, lastGet, parseVars, shellVars>>

CacheGet(key) ==
  /\ lastGet' = CacheGetResult(cache, key, now)
  /\ cache' = CacheGetMap(cache, key, now)
  /\ lastOp' = [op |-> "get", key |-> key]
  /\ prevCache' = cache
  /\ UNCHANGED <<now, written, parseVars, shellVars>>

CacheClear ==
  /\ cache' = CacheClearOp(cache)
  /\ lastOp' = [op |-> "clear"]
  /\ prevCache' = cache
  /\ written' = [k \in CacheKeys |-> Unwritten]
  /\ UNCHANGED <<now, lastGet, parseVars, shellVars>>

CacheInvalidate(pattern) ==
  /\ cache' = CacheInvalidateOp(cache, pattern)
  /\ lastOp' = [op |-> "invalidate", pattern |-> pattern]
  /\ prevCache' = cache
  /\ written' = [k \in CacheKeys |->
                   IF IsSubstring(pattern, k) THEN Unwritten ELSE written[k]]
  /\ UNCHANGED <<now, lastGet, parseVars, shellVars>>

\* Time passes between two calls.
CacheWait ==
  /\ now < MaxTime
  /\ now' = now + 1
  /\ lastOp' = [op |-> "wait"]
  /\ prevCache' = cache
  /\ UNCHANGED <<cache, lastGet, written, parseVars, shellVars>>

NextCache ==
  \/ \E k \in CacheKeys, v \in CacheValues, ttl \in 0..MaxTtl : CacheSet(k, v, ttl)
  \/ \E k \in CacheKeys : CacheGet(k)
  \/ CacheClear
  \/ \E p \in CachePatterns : CacheInvalidate(p)
  \/ CacheWait

SpecCache == InitCache /\ [][NextCache]_vars

-----------------------------------------------------------------------------
(* The parser on its own: one status output, parsed once.                  *)

MaxWs == 2
MaxDigits == 2

Blanks(n) == [i \in 1..n |-> " "]
SomeDigits == <<"1", "7", "0", "3", "5">>

LinePrefixes == { <<>>, <<" ">>, <<"a", " ">>, <<"CHECK", "a">>, <<"[", "X", "]">> }
LineMarkers == { MarkerX, MarkerCheck, <<"[", "x", "]">>, <<>> }
LineBlanks == { Blanks(n) : n \in 0..MaxWs } \cup { <<"\t">> }
LineDigits == { SubSeq(SomeDigits, 1, n) : n \in 0..MaxDigits }
LineTails ==
  { <<>>,
    <<"a">>,
    <<"I", "n", "i", "t", "1", "7">>,
    <<"a", " ", "b">>,
    <<"ESC", "[", "3", "2", "m", "a", "1", "ESC", "[", "0", "m">>,
    <<"ESC", "[", "1", ";", "3", "2", "m">>,
    <<"ESC", "[", "3", "a">> }

StatusLines ==
  { pre \o mk \o w1 \o ds \o w2 \o tl :
      pre \in LinePrefixes, mk \in LineMarkers, w1 \in LineBlanks,
      ds \in LineDigits, w2 \in LineBlanks, tl \in LineTails }

TwoLineOutputs ==
  { <<MarkerX \o <<" ", "1", " ", "A", "1", "0", "0">>, l>> :
      l \in { <<"[", " ", "]", " ", "2", " ", "B", "2", "0", "0">>,
              MarkerCheck \o <<" ", "3", " ", "C", "3", "0", "0">>,
              <<>> } }

InitParse ==
  /\ cache = NoEntries
  /\ now = 0
  /\ InitCacheObs
  /\ InitShell({DefaultConfig})
  /\ parseIn \in { <<l>> : l \in StatusLines } \cup TwoLineOutputs
  /\ parseOut = [done |-> FALSE]

ParseStatus ==
  /\ ~parseOut.done
  /\ parseOut' = [done |-> TRUE, names |-> ParseAppliedMigrations(parseIn)]
  /\ UNCHANGED <<parseIn, cacheVars, shellVars>>

NextParse == ParseStatus

SpecParse == InitParse /\ [][NextParse]_vars

-----------------------------------------------------------------------------
(* C1: after set(k, v, ttl) at time t with no later set, clear or          *)
(* invalidate touching k, get(k) at time t' returns v when t' - t <= ttl;  *)
(* when t' - t > ttl it returns a miss and k is no longer in the map.      *)
C1_TtlExpiry ==
  lastOp.op = "get" =>
    LET w == written[lastOp.key] IN
      w.set =>
        IF now - w.at <= w.ttl
          THEN /\ lastGet = [hit |-> TRUE, data |-> w.data]
               /\ lastOp.key \in DOMAIN cache
          ELSE /\ lastGet = [hit |-> FALSE]
               /\ lastOp.key \notin DOMAIN cache

\* A get that found its entry expired and evicted it.
C1_Witness ==
  /\ lastOp.op = "get"
  /\ written[lastOp.key].set
  /\ now - written[lastOp.key].at > written[lastOp.key].ttl
  /\ lastOp.key \in DOMAIN prevCache
  /\ lastOp.key \notin DOMAIN cache
  /\ lastGet = [hit |-> FALSE]

(* C2: invalidate(s) removes every key that contains s and leaves every    *)
(* key that does not contain s with the same value, write time and ttl.    *)
C2_InvalidateFrame ==
  lastOp.op = "invalidate" =>
    /\ DOMAIN cache = {k \in DOMAIN prevCache : ~IsSubstring(lastOp.pattern, k)}
    /\ \A k \in DOMAIN cache : cache[k] = prevCache[k]

\* An invalidate that removed one key and kept another.
C2_Witness ==
  /\ lastOp.op = "invalidate"
  /\ \E k \in DOMAIN prevCache : k \notin DOMAIN cache
  /\ \E k \in DOMAIN prevCache : k \in DOMAIN cache /\ cache[k] = prevCache[k]

-----------------------------------------------------------------------------
(* Status-line recognition, stated on the text of a line.                  *)

\* The marker at i is followed by whitespace, a digit run, whitespace and a
\* character that is not whitespace, each of the three runs non-empty.
StrictAt(line, i) ==
  /\ MarkerLen(line, i) > 0
  /\ LET p == i + MarkerLen(line, i) IN
       \E q \in (p + 1)..Len(line), r \in (p + 2)..Len(line), t \in (p + 3)..Len(line) :
         /\ q < r /\ r < t
         /\ \A x \in p..(q - 1) : IsWs(line[x])
         /\ \A x \in q..(r - 1) : IsDigit(line[x])
         /\ \A x \in r..(t - 1) : IsWs(line[x])
         /\ IsNonWs(line[t])

\* The same with both whitespace runs optional (the digit run is not: one
\* digit at least, and the character after the second run may be a digit).
LenientAt(line, i) ==
  /\ MarkerLen(line, i) > 0
  /\ LET p == i + MarkerLen(line, i) IN
       \E q \in p..Len(line), r \in (p + 1)..Len(line), t \in (p + 1)..Len(line) :
         /\ q < r /\ r <= t
         /\ \A x \in p..(q - 1) : IsWs(line[x])
         /\ \A x \in q..(r - 1) : IsDigit(line[x])
         /\ \A x \in r..(t - 1) : IsWs(line[x])
         /\ IsNonWs(line[t])

\* The name token at the marker at i: the run of non-whitespace characters
\* after the whitespace that follows the whole digit run, and the last digit
\* of the run when only whitespace (or nothing) follows it.
NameTokenAt(line, i) ==
  LET p == i + MarkerLen(line, i)
      q == p + WsRun(line, p)
      r == q + DigitRun(line, q)
      t == r + WsRun(line, r)
  IN  IF t <= Len(line) THEN SubSeq(line, t, t + NonWsRun(line, t) - 1)
      ELSE <<line[r - 1]>>

RecognizedNames(line) ==
  LET markersAt == {i \in 1..Len(line) : LenientAt(line, i)}
  IN  IF markersAt = {} THEN <<>>
      ELSE <<StripAnsi(NameTokenAt(line, Min(markersAt)))>>

RECURSIVE RecognizedFrom(_, _)
RecognizedFrom(lines, i) ==
  IF i > Len(lines) THEN <<>>
  ELSE RecognizedNames(lines[i]) \o RecognizedFrom(lines, i + 1)

(* C5 as stated: a line yields an applied-name token if and only if it     *)
(* contains the checkmark or [X] followed by whitespace, a digit run,      *)
(* whitespace and a non-whitespace name token.                             *)
C5_StrictRecognition ==
  (parseOut.done /\ Len(parseIn) = 1) =>
    ((parseOut.names # <<>>) <=> (\E i \in 1..Len(parseIn[1]) : StrictAt(parseIn[1], i)))

(* C5 amended: a line yields an applied-name token if and only if it       *)
(* contains the checkmark or [X] followed by optional whitespace, a digit  *)
(* run, optional whitespace and a non-whitespace character; the token is   *)
(* the name token at the first such marker with the ANSI colour escape     *)
(* sequences stripped, and the names come out in the order of the lines.   *)
C5_Recognition ==
  parseOut.done => parseOut.names = RecognizedFrom(parseIn, 1)

\* A line without whitespace after the marker was recognized, and a name
\* token that carried colour codes came out without them.
C5_Witness ==
  /\ parseOut.done
  /\ Len(parseIn) = 1
  /\ parseOut.names # <<>>
  /\ ~ \E i \in 1..Len(parseIn[1]) : StrictAt(parseIn[1], i)
  /\ Includes(parseIn[1], <<"ESC", "[", "3", "2", "m", "a", "1">>)
  /\ parseOut.names = << <<"a", "1">> >>


-----------------------------------------------------------------------------
(* The inventory after a load, stated on the directory listing and on the  *)
(* status output the load saw.                                             *)

Names(ms) == [i \in 1..Len(ms) |-> ms[i].name]

(* C3 as stated: the inventory is strictly ordered by ascending timestamp, *)
(* each record's timestamp strictly smaller than the next one's.           *)
C3_StrictlyAscending ==
  \A i \in 1..(Len(migrations) - 1) :
    migrations[i].timestamp < migrations[i + 1].timestamp

(* C3 amended: the inventory is ordered by ascending timestamp, no record's *)
(* timestamp greater than the next one's (files that share a leading digit *)
(* run, or whose runs differ only in leading zeros, have equal timestamps).*)
C3_Ascending ==
  \A i \in 1..(Len(migrations) - 1) :
    migrations[i].timestamp <= migrations[i + 1].timestamp

\* A listing out of order, two of its files sharing the digit run 100: the
\* load put the two before 200.ts and kept them in the listing's order.
C3_Witness ==
  /\ statusSeen.called
  /\ scanned = <<File200, File100b, File100a>>
  /\ Names(migrations) = <<File100b.name, File100a.name, File200.name>>
  /\ migrations[1].timestamp = migrations[2].timestamp

\* The digit runs of s that start at position a, end at b and cannot be
\* extended to the right.
DigitRunsFrom(s, a) ==
  {SubSeq(s, a, b) : b \in {c \in a..Len(s) :
                              /\ \A k \in a..c : IsDigit(s[k])
                              /\ (c = Len(s) \/ ~IsDigit(s[c + 1]))}}

\* The leading digit run of s, as a set: empty when s starts with no digit.
LeadingRuns(s) == DigitRunsFrom(s, 1)

\* The first digit run of s, wherever it starts.
FirstRuns(s) ==
  UNION {DigitRunsFrom(s, a) : a \in {c \in 1..Len(s) : \A k \in 1..(c - 1) : ~IsDigit(s[k])}}

\* The applied-name tokens recognized in the status output of the last load.
TokensSeen ==
  LET recognized == RecognizedFrom(statusSeen.lines, 1)
  IN  {recognized[i] : i \in 1..Len(recognized)}

\* The leading digit runs, and the first digit runs, of the tokens.
LeadingRunsSeen == UNION {LeadingRuns(tok) : tok \in TokensSeen}
FirstRunsSeen == UNION {FirstRuns(tok) : tok \in TokensSeen}

\* Applied for the records whose own leading digit run is one of `runs`,
\* Pending for the others.
StatusesBy(runs) ==
  [i \in 1..Len(migrations) |->
     IF LeadingRuns(migrations[i].name) \cap runs # {} THEN "applied" ELSE "pending"]

Statuses(ms) == [i \in 1..Len(ms) |-> ms[i].status]

(* C4 as stated: after a load whose status command succeeded, a record is  *)
(* Applied if and only if its own leading digit run equals, as a string,   *)
(* the leading digit run of some recognized applied-name token; every      *)
(* other record is Pending.                                                *)
C4_LeadingRunMatching ==
  (statusSeen.called /\ statusSeen.ok) =>
    Statuses(migrations) = StatusesBy(LeadingRunsSeen)

(* C4 amended: after a load whose status command succeeded, a record is    *)
(* Applied if and only if its own leading digit run equals, as a string,   *)
(* the first digit run found anywhere in some recognized applied-name      *)
(* token; every other record is Pending.                                   *)
C4_FirstRunMatching ==
  (statusSeen.called /\ statusSeen.ok) =>
    Statuses(migrations) = StatusesBy(FirstRunsSeen)

\* The status output names A100, whose digit run is not leading: 100a.ts
\* became Applied and 200.ts stayed Pending.
C4_Witness ==
  /\ statusSeen.called /\ statusSeen.ok
  /\ statusSeen.lines = <<Line100>>
  /\ scanned = <<File200, File100a>>
  /\ Names(migrations) = <<File100a.name, File200.name>>
  /\ migrations[1].status = "applied"
  /\ migrations[2].status = "pending"

\* The names of the listing's migration files.
ScannedNames ==
  {scanned[i].name : i \in {j \in 1..Len(scanned) : IsMigrationFile(scanned[j].name)}}

(* C7: if the status command fails during a load, the load still           *)
(* completes, the freshly scanned inventory is installed with every record *)
(* Pending, connectivity is false, and the failure is logged as a warning  *)
(* rather than an error.                                                   *)
C7_StatusFailureNonFatal ==
  (lastEvent = "loaded" /\ ~statusSeen.ok) =>
    /\ ~isLoading
    /\ Len(migrations) = Cardinality(ScannedNames)
    /\ {migrations[i].name : i \in 1..Len(migrations)} = ScannedNames
    /\ \A i \in 1..Len(migrations) : migrations[i].status = "pending"
    /\ listItems = migrations
    /\ dbInfo.connected = FALSE
    /\ Len(logBuffer) >= 2
    /\ logBuffer[Len(logBuffer) - 1] =
         [type |-> "warning", message |-> "Could not fetch migration status"]
    /\ logBuffer[Len(logBuffer)] = [type |-> "success", message |-> "Loaded migrations"]
    /\ \A i \in 1..Len(logBuffer) : logBuffer[i].type # "error"

\* A load of two migration files whose status command failed.
C7_Witness ==
  /\ lastEvent = "loaded"
  /\ ~statusSeen.ok
  /\ scanned = <<File200, FileTxt, File100a>>
  /\ Names(migrations) = <<File100a.name, File200.name>>
  /\ dbInfo.connected = FALSE
  /\ dbInfo.pendingCount = 2

-----------------------------------------------------------------------------
(* The filtered view and the selection.                                    *)

\* Two characters that are equal up to the case of a letter.
SameLetter(a, b) ==
  a = b \/ \E n \in 1..26 : {a, b} = {UpperChars[n], LowerChars[n]}

\* s contains k, the case of letters disregarded.
ContainsIgnoringCase(s, k) ==
  \E i \in 0..(Len(s) - Len(k)) : \A j \in 1..Len(k) : SameLetter(s[i + j], k[j])

\* The record passes the status filter and the search.
Passes(r, status, text) ==
  /\ status = "all" \/ r.status = status
  /\ \/ text = <<>>
     \/ ContainsIgnoringCase(r.name, text)
     \/ ContainsIgnoringCase(r.description, text)

\* The subsequence of ms[i..] of the records that pass.
RECURSIVE PassingFrom(_, _, _, _)
PassingFrom(ms, status, text, i) ==
  IF i > Len(ms) THEN <<>>
  ELSE (IF Passes(ms[i], status, text) THEN <<ms[i]>> ELSE <<>>)
         \o PassingFrom(ms, status, text, i + 1)

(* C8: the filtered view is exactly the subsequence of the inventory, in   *)
(* the inventory's order, of the records r such that (filterStatus is all  *)
(* or r.status equals it) and (searchTerm is empty or r.name or            *)
(* r.description contains it case-insensitively); it is empty when no      *)
(* record matches, and a filter cycle or a search leaves the inventory as  *)
(* it was.                                                                 *)
C8_FilterComposition ==
  /\ listItems = PassingFrom(migrations, filterStatus, searchTerm, 1)
  /\ lastEvent \in {"filter", "search"} => migrations = prevView.migrations

\* Five records, the Pending filter and a search term in another case than
\* the one description it matches: the view is the one Pending record whose
\* description contains the term.
C8_Witness ==
  /\ Len(migrations) = 5
  /\ filterStatus = "pending"
  /\ searchTerm = <<"a", "D", "d">>
  /\ Names(listItems) = <<File0100.name>>
  /\ \E i \in 1..5 : migrations[i].name = File100a.name /\ migrations[i].status = "applied"

\* max(0, n - 1)
LastIndex(n) == IF n - 1 > 0 THEN n - 1 ELSE 0

(* C9: after a filter cycle, a search submission or a completed load,      *)
(* selectedIndex lies in [0, max(0, n-1)], n the length of the new         *)
(* filtered list; if it was beyond the new list it is max(0, n-1), and     *)
(* otherwise it is unchanged.                                              *)
C9_SelectionClamp ==
  lastEvent \in {"filter", "search", "loaded"} =>
    /\ selectedIndex \in 0..LastIndex(Len(listItems))
    /\ selectedIndex =
         IF prevView.selectedIndex >= Len(listItems)
           THEN LastIndex(Len(listItems))
           ELSE prevView.selectedIndex

\* The list had five items and the fifth selected; the event left two items
\* and the second selected.
C9_Witness ==
  /\ lastEvent \in {"filter", "search", "loaded"}
  /\ prevView.length = 5
  /\ prevView.selectedIndex = 4
  /\ Len(listItems) = 2
  /\ selectedIndex = 1

-----------------------------------------------------------------------------
(* The connection summary and the refresh triggers.                        *)

(* C6: whenever no load is in flight, the connection summary's total count *)
(* equals the length of the inventory and its pending count equals the     *)
(* number of inventory records with status Pending, after any sequence of  *)
(* loads, refreshes and failed loads.                                      *)
C6_CountConsistency ==
  ~isLoading =>
    /\ dbInfo.migrationsCount = Len(migrations)
    /\ dbInfo.pendingCount =
         Cardinality({i \in 1..Len(migrations) : migrations[i].status = "pending"})

\* Files 100, 200 and 300 with 100 and 300 reported applied: one pending of
\* three.
C6_Witness ==
  /\ ~isLoading
  /\ statusSeen.called /\ statusSeen.ok
  /\ scanned = ThreeFiles
  /\ Statuses(migrations) = <<"applied", "pending", "applied">>
  /\ [i \in 1..Len(migrations) |-> migrations[i].timestamp] = <<100, 200, 300>>
  /\ dbInfo.pendingCount = 1
  /\ dbInfo.migrationsCount = 3

(* C10: two refresh triggers fired less than the configured auto-refresh   *)
(* interval apart result in exactly one actual reload, the interval being  *)
(* the autoRefreshInterval given at construction: when the first of the    *)
(* two reloads, the second does not.                                       *)
C10_Debounce ==
  (/\ Len(triggers) = 2
   /\ triggers[2].at - triggers[1].at < config.autoRefreshInterval
   /\ triggers[1].reloaded)
    => ~triggers[2].reloaded

-----------------------------------------------------------------------------
(* C18.  A filesystem error during a scan aborts the load atomically: the   *)
(* step in which the load fails leaves the inventory, the list shown, the  *)
(* total and pending counts, lastCheck and the cache as they were, logs    *)
(* one error, and resets isLoading.                                        *)

C18_AtomicAbort ==
  [][lastEvent' = "failed" =>
       /\ migrations' = migrations
       /\ listItems' = listItems
       /\ details' = details
       /\ dbInfo' = dbInfo
       /\ cache' = cache
       /\ ~isLoading'
       /\ Len(logBuffer') = Len(logBuffer) + 1
       /\ logBuffer'[Len(logBuffer')].type = "error"]_vars

\* A reload failed after an earlier load had installed an inventory.
C18_Witness ==
  /\ lastEvent = "failed"
  /\ Len(migrations) > 0
  /\ dbInfo.lastCheck > 0
  /\ dbInfo.migrationsCount = Len(migrations)

-----------------------------------------------------------------------------
(* C19.  An auto-refresh tick starts a reload only when no load is in      *)
(* flight and more than the timer's interval has passed since lastCheck;   *)
(* a tick that fails either condition leaves the cache, the inventory, the *)
(* counts, the view state and the log as they were and starts no load.     *)

C19_AutoRefreshGuard ==
  [][lastEvent' = "tick" =>
       IF ~isLoading /\ now - dbInfo.lastCheck > AUTO_REFRESH_MS
         THEN loads' = loads + 1
         ELSE /\ loads' = loads
              /\ awaiting' = awaiting
              /\ cache' = cache
              /\ migrations' = migrations
              /\ dbInfo' = dbInfo
              /\ isLoading' = isLoading
              /\ selectedIndex' = selectedIndex
              /\ filterStatus' = filterStatus
              /\ searchTerm' = searchTerm
              /\ listItems' = listItems
              /\ details' = details
              /\ logBuffer' = logBuffer]_vars

\* A tick found no load in flight and a check less than an interval old, and
\* did not reload.
C19_Witness ==
  /\ lastEvent = "tick"
  /\ ~isLoading
  /\ dbInfo.lastCheck > 0
  /\ now - dbInfo.lastCheck <= AUTO_REFRESH_MS
  /\ ~triggers[Len(triggers)].reloaded

-----------------------------------------------------------------------------
(* C11.  At most one load is in flight at any time, whatever the order of  *)
(* the start, refresh keys, timer ticks and reloads after a command; and a *)
(* reload requested while a load is in flight starts no scan and leaves    *)
(* the inventory as it was.                                                *)

\* The handlers that call loadMigrations whatever isLoading is.
ReloadRequests == {"start", "refresh", "exit"}

C11_ReentrancyGuard ==
  /\ [](loads <= 1 /\ (isLoading <=> loads = 1))
  /\ [][(isLoading /\ lastEvent' \in ReloadRequests) =>
          /\ loads' = loads
          /\ isLoading'
          /\ migrations' = migrations
          /\ listItems' = listItems
          /\ scanned' = scanned]_vars

\* The reload after a command was requested while the load of a refresh was
\* in flight.
C11_Witness ==
  /\ lastEvent = "exit"
  /\ lastClose.returned
  /\ loads = 1
  /\ ~owing.load
  /\ Len(migrations) > 0

-----------------------------------------------------------------------------
(* C12.  Whenever a mutation command has finished successfully, a load     *)
(* that began after the command finished completes and installs its        *)
(* result.  Once nothing is left in flight (no load, no child, no caller   *)
(* waiting) and the timer is off, nothing more happens until the operator  *)
(* presses a key, so by then the fresh load must have been installed.      *)

Quiescent ==
  /\ loads = 0
  /\ children = <<>>
  /\ awaiting = "none"
  /\ ~autoRefreshInterval.on

C12_FreshLoadInstalled == Quiescent => ~owing.owed

-----------------------------------------------------------------------------
(* C13.  One logical operation at a time: a directory scan and an external *)
(* mutation command are never in progress together, and no two mutation    *)
(* commands are.                                                           *)

C13_OneOperationAtATime ==
  /\ Len(children) <= 1
  /\ ~(loads > 0 /\ children # <<>>)

-----------------------------------------------------------------------------
(* C15, C16 and C20: the mutation commands.                                 *)

\* The command line the configuration names for an operation: the configured
\* string where there is one, the default otherwise, and the name after it.
ConfiguredLine(cfg, op, name) ==
  CASE op = "create" ->
         <<Configured(cfg, "create", "pnpm run migration:create"), " migrations/">> \o name
    [] op = "generate" ->
         <<Configured(cfg, "generate", "pnpm run migration:generate"), " migrations/">> \o name
    [] op = "apply" -> <<Configured(cfg, "migrateUp", "pnpm run migrate:up")>>
    [] op = "revert" -> <<Configured(cfg, "migrateDown", "pnpm run migrate:down")>>

\* C15: every command that was spawned is the configured command string of
\* its operation, or the default where none is configured, with the
\* submitted name appended as a path argument for create and generate.
C15_ConfiguredCommandsRun ==
  \A i \in DOMAIN spawned :
    spawned[i].command = ConfiguredLine(config, spawned[i].op, spawned[i].name)

LoggedLast(type, message) ==
  \E i \in DOMAIN lastClose.logged :
    lastClose.logged[i] = [type |-> type, message |-> message]

\* C16: whenever a spawned command has finished, with exit code zero, with
\* another code or by failing to spawn, executeCommand returned to the
\* handler, which dropped the cached migration data and asked for a reload
\* (the refresh is logged and a load is in flight); the two failures were
\* logged as errors.
C16_ReloadAfterEveryOutcome ==
  lastEvent = "exit" =>
    /\ lastClose.returned
    /\ MigrationsKey \notin DOMAIN cache
    /\ LoggedLast("info", "Refreshing data...")
    /\ isLoading /\ loads = 1
    /\ lastClose.outcome = "nonzero" => LoggedLast("error", "failed with code")
    /\ lastClose.outcome = "error" => LoggedLast("error", "failed")
    /\ lastClose.outcome = "zero" =>
         \A i \in DOMAIN lastClose.logged : lastClose.logged[i].type # "error"

\* A command failed to spawn after the inventory had been loaded, and the
\* reload that follows is in flight.
C16_Witness ==
  /\ lastEvent = "exit"
  /\ lastClose.outcome = "error"
  /\ Len(migrations) > 0
  /\ loads = 1 /\ awaiting = "refresh"

Blank(name) == \A i \in DOMAIN name : name[i] = " "

Declined ==
  \/ lastEvent' \in {"no", "cancel"}
  \/ lastEvent' = "submit" /\ Blank(lastInput'.name)

\* C20: a command is spawned only by Y on the confirmation box of apply or
\* revert, or by the submission of a name that is not blank to the name box
\* of create or generate; N or escape, a cancelled name box and a blank name
\* spawn nothing, leave the cache as it is and ask for no reload.
C20_SpawnOnlyOnConsent ==
  /\ [][spawned' # spawned =>
          /\ Len(spawned') = Len(spawned) + 1
          /\ \/ /\ lastEvent' = "yes"
                /\ Focused.kind = "confirm"
                /\ spawned'[Len(spawned')].op = Focused.op
                /\ Focused.op \in {"apply", "revert"}
             \/ /\ lastEvent' = "submit"
                /\ Focused.kind = "name"
                /\ spawned'[Len(spawned')].op = Focused.op
                /\ Focused.op \in {"create", "generate"}
                /\ spawned'[Len(spawned')].name = lastInput'.name
                /\ ~Blank(lastInput'.name)]_vars
  /\ [][Declined =>
          /\ spawned' = spawned
          /\ children' = children
          /\ cache' = cache
          /\ loads' = loads /\ isLoading' = isLoading
          /\ logBuffer' = logBuffer
          /\ migrations' = migrations
          /\ overlays' = DestroyFocused]_vars

\* A name of blanks was submitted after the inventory had been loaded and
\* cached, and nothing was spawned.
C20_Witness ==
  /\ lastEvent = "submit"
  /\ lastInput.name = <<" ">>
  /\ spawned = <<>>
  /\ MigrationsKey \in DOMAIN cache
  /\ Len(migrations) > 0

-----------------------------------------------------------------------------
(* C14 and C17: keys, overlays and the selected record.                     *)

ModalKinds == {"confirm", "exit", "help", "actions", "content", "details"}

ScreenCommands ==
  {"quit", "refresh", "help", "create", "generate", "apply", "revert", "filter", "toggle"}

\* C14: while a confirmation, exit prompt, help, action menu, content or
\* details box is open, no step is a screen-level command (quit prompt,
\* refresh, help, create, generate, apply-all, revert-last, filter-cycle,
\* auto-refresh toggle).
C14_OverlaysCaptureInput ==
  [][Focused.kind \in ModalKinds => lastEvent' \notin ScreenCommands]_vars

\* C17: the record the v key takes is the record the details panel shows,
\* which is the record at selectedIndex in the filtered list and the one the
\* action menu takes.
C17_SameRecordInEveryView ==
  /\ details = RecordAt(GetFilteredMigrations(migrations, filterStatus, searchTerm),
                        selectedIndex)
  /\ lastEvent \in {"view", "actions"} => lastInput.target = details

-----------------------------------------------------------------------------
(* C29: the auto-refresh timer.                                             *)

\* C29: auto-refresh is off when the shell is constructed; every toggle
\* flips the handle between off and on; at most one timer is live, and one
\* is live exactly when the handle is on; while the handle is off no timer
\* callback runs.
C29_SingleTimer ==
  /\ ~autoRefreshInterval.on
  /\ [](/\ Cardinality(DOMAIN timers) <= 1
        /\ autoRefreshInterval.on <=> DOMAIN timers # {}
        /\ autoRefreshInterval.on => autoRefreshInterval.id \in DOMAIN timers)
  /\ [][lastEvent' = "toggle" => autoRefreshInterval'.on = ~autoRefreshInterval.on]_vars
  /\ [][~autoRefreshInterval.on => lastEvent' # "tick"]_vars

\* Auto-refresh was switched on, a period passed, its callback ran, and it
\* has just been switched off again.
C29_Witness ==
  /\ lastEvent = "toggle"
  /\ ~autoRefreshInterval.on
  /\ \E i \in DOMAIN triggers : triggers[i].at > Epoch

-----------------------------------------------------------------------------
(* C22 and C23: what a refresh finds in the cache, and the guard's release. *)

RefreshDataCalled ==
  \/ lastEvent' \in {"refresh", "exit"}
  \/ lastEvent' = "tick" /\ TickReloads

\* C22: with start called once, every step that calls refreshData (the
\* refresh key, a timer callback whose condition holds, the reload after a
\* command) and finds no load in flight raises a load that will scan the
\* directory and run the status command: it is never answered from the
\* cache, which is empty afterwards, and the inventory is not replaced in
\* that step.
C22_RefreshNeverServedFromCache ==
  [][RefreshDataCalled /\ ~isLoading =>
       /\ loads' = loads + 1
       /\ isLoading'
       /\ cache' = NoEntries
       /\ migrations' = migrations
       /\ logBuffer'[Len(logBuffer')] = [type |-> "info", message |-> "Loading migrations..."]]_vars

\* The refresh key was pressed while the inventory cached by the last load
\* was younger than its time to live, and a load is in flight.
C22_Witness ==
  /\ lastEvent = "refresh"
  /\ loads = 1
  /\ Len(migrations) > 0
  /\ now - dbInfo.lastCheck < MIGRATIONS_TTL
  /\ now > dbInfo.lastCheck

\* C23: isLoading is set only while a load is in flight; the step in which a
\* load settles, with the status command succeeding or failing or with a
\* filesystem error, resets it; and a refresh requested when no load is in
\* flight raises one.
C23_GuardReleased ==
  /\ [](isLoading => loads > 0)
  /\ [][lastEvent' \in {"loaded", "failed"} => ~isLoading' /\ loads' = loads - 1]_vars
  /\ [][lastEvent' = "refresh" /\ loads = 0 => loads' = 1 /\ isLoading']_vars

\* A refresh has raised a load after a load whose status command failed.
C23_Witness ==
  /\ lastEvent = "refresh"
  /\ isLoading
  /\ statusSeen.called /\ ~statusSeen.ok
  /\ Len(migrations) > 0

-----------------------------------------------------------------------------
(* C24, C25 and C26: the search box, the filter ring and the focus ring.    *)

\* C24: a submit of the search box sets searchTerm to the submitted value,
\* shows the inventory filtered by the unchanged status filter and the new
\* term, and gives the focus to the list; a cancel changes no field and
\* gives the focus to the list.
C24_SearchSubmitAndCancel ==
  /\ [][lastEvent' = "search" =>
          /\ searchTerm' = lastInput'.value
          /\ filterStatus' = filterStatus
          /\ migrations' = migrations
          /\ listItems' = GetFilteredMigrations(migrations, filterStatus, lastInput'.value)
          /\ overlays' = <<>> /\ focusedPanel' = "list"]_vars
  /\ [][lastEvent' = "nosearch" =>
          /\ searchTerm' = searchTerm
          /\ filterStatus' = filterStatus
          /\ selectedIndex' = selectedIndex
          /\ migrations' = migrations
          /\ listItems' = listItems
          /\ overlays' = <<>> /\ focusedPanel' = "list"]_vars

\* A term was submitted that some but not all records of the inventory match,
\* over a search term that was different before.
C24_Witness ==
  /\ lastEvent = "search"
  /\ searchTerm # <<>>
  /\ Len(listItems) > 0
  /\ Len(listItems) < prevView.length
  /\ focusedPanel = "list"

RingSuccessor(f) ==
  CASE f = "all" -> "pending"
    [] f = "pending" -> "applied"
    [] f = "applied" -> "failed"
    [] f = "failed" -> "all"

\* C25: a filter-cycle step moves filterStatus to its successor in the ring
\* all, pending, applied, failed, all and leaves searchTerm and the inventory
\* as they are; from every reachable state four cycleFilter calls in a row
\* give the filterStatus, the list shown and the selection back.
C25_FilterRing ==
  /\ [][lastEvent' = "filter" =>
          /\ filterStatus' = RingSuccessor(filterStatus)
          /\ searchTerm' = searchTerm
          /\ migrations' = migrations]_vars
  /\ [](\E s4 \in {CycleFilterOp(CycleFilterOp(CycleFilterOp(CycleFilterOp(Fields))))} :
          /\ s4.filterStatus = filterStatus
          /\ s4.searchTerm = searchTerm
          /\ s4.migrations = migrations
          /\ s4.listItems = listItems)

\* The ring has been gone round: the filter is back at all after a
\* filter-cycle step, with a search term set and an inventory loaded.
C25_Witness ==
  /\ lastEvent = "filter"
  /\ filterStatus = "all"
  /\ searchTerm # <<>>
  /\ Len(migrations) > 1

-----------------------------------------------------------------------------
(* C27: the log buffer.                                                     *)

\* C27: the log buffer never holds more than 1000 entries; a log call makes
\* it the old buffer with the new entry at its end when that is at most 1000
\* entries long, and the last 1000 entries of that otherwise: the entries
\* kept are the newest, in the order of the calls.
C27_BoundedLog ==
  /\ [](Len(logBuffer) <= 1000)
  /\ [](\A i \in 1..(Len(logBuffer) - 1) :
          logBuffer[i + 1].message = logBuffer[i].message + 1)
  /\ [][lastEvent' = "log" =>
          /\ Len(logBuffer') = IF Len(logBuffer) < 1000 THEN Len(logBuffer) + 1 ELSE 1000
          /\ logBuffer'[Len(logBuffer')] = lastInput'.entry
          /\ \A i \in 1..(Len(logBuffer') - 1) :
               logBuffer'[i] = logBuffer[Len(logBuffer) + 1 - Len(logBuffer') + i]]_vars

\* A log call on a full buffer: the two oldest entries have been dropped.
C27_Witness ==
  /\ lastEvent = "log"
  /\ Len(logBuffer) = 1000
  /\ logBuffer[1].message = 3
  /\ logBuffer[1000].message = 1002

-----------------------------------------------------------------------------
(* C21 and C28: the failed status, and failures that are not fatal.         *)

\* C21: no record of the inventory, of the cached inventory or of the list
\* shown has the status failed, so the failed filter selects nothing.
C21_FailedUnreachable ==
  /\ \A i \in DOMAIN migrations : migrations[i].status \in {"pending", "applied"}
  /\ \A i \in DOMAIN listItems : listItems[i].status # "failed"
  /\ \A k \in DOMAIN cache :
       \A i \in DOMAIN cache[k].data : cache[k].data[i].status # "failed"
  /\ GetFilteredMigrations(migrations, "failed", searchTerm) = <<>>

\* The inventory was loaded by a load whose status command failed, and a
\* command has failed since.
C21_Witness ==
  /\ Len(migrations) > 1
  /\ statusSeen.called /\ ~statusSeen.ok
  /\ lastClose.outcome = "nonzero"
  /\ ~isLoading

LastLogged == logBuffer[Len(logBuffer)]

\* C28: the process has exited only by Y on the exit prompt; after a load
\* that a filesystem error ended, a load whose status command failed, a
\* command that exited with a non-zero code or could not be spawned, and a
\* content file that could not be read, the process runs, the failure is in
\* the log, and the guard of the load is released.
C28_NoFailureIsFatal ==
  /\ exited => lastEvent = "exityes"
  /\ lastEvent = "failed" =>
       ~exited /\ ~isLoading /\ LastLogged.type = "error"
  /\ lastEvent = "loaded" /\ ~statusSeen.ok =>
       /\ ~exited /\ ~isLoading
       /\ \E i \in DOMAIN logBuffer :
            logBuffer[i] = [type |-> "warning", message |-> "Could not fetch migration status"]
  /\ lastEvent = "exit" /\ lastClose.outcome # "zero" =>
       /\ ~exited /\ lastClose.returned
       /\ \E i \in DOMAIN lastClose.logged : lastClose.logged[i].type = "error"
  /\ lastEvent = "content" /\ ~lastInput.ok =>
       ~exited /\ LastLogged.type = "error"

\* The operator has quit after a status command had failed and a command
\* could not be spawned.
C28_Witness ==
  /\ lastEvent = "exityes"
  /\ exited
  /\ lastClose.outcome = "error"
  /\ statusSeen.called /\ ~statusSeen.ok

====
